---------------------------- MODULE Spec2Model ----------------------------
(***************************************************************************)
(* Model of the indicator engine of eyadb/tadbsimple:                       *)
(*   src/indicator_engine.py  IndicatorCalculator (metric library,          *)
(*                            calculate_for_symbol, process_all_symbols)    *)
(*   src/db_manager.py        DatabaseManager (price store accessors and    *)
(*                            the stockindicators upsert)                   *)
(*                                                                          *)
(* Money is held in cents (a Decimal with two places is an integer number   *)
(* of cents), dates are day numbers, Python's None is the value None.       *)
(***************************************************************************)
EXTENDS Integers, Sequences, FiniteSets, TLC

VARIABLES
    stockdatas,       \* price store: symbol -> description of its bars
    stockindicators,  \* indicator table: the rows the upserts have written
    batch_size,       \* argument of process_all_symbols
    pc,               \* position of the running call
    target_date,      \* process_all_symbols: target_date (line 230)
    symbols,          \* process_all_symbols: symbols (line 235)
    idx,              \* position of the for loop of line 245 in symbols
    result,           \* value returned by the last calculate_for_symbol
    batch,            \* process_all_symbols: batch (line 242)
    total_written,    \* process_all_symbols: total_written (line 243)
    ret,              \* value returned by process_all_symbols
    invoked,          \* history: the calls of calculate_for_symbol
    flushes,          \* history: the calls of batch_insert_indicators
    last_acc,         \* history: how the accessor answered the last calculation
    fn_values,        \* metric library: the series handed to a metric
    fn_window,        \* metric library: the window handed to a metric
    fn_recent,        \* metric library: the argument recent of _volume_ratio
    fn_lows,          \* metric library: the lows handed to _adr20, _atr14
    fn_closes,        \* metric library: the closes handed to _atr14
    fn_target,        \* metric library: the target date of _calculate_highs
    fn_out,           \* metric library: the value the metric returned
    first_run,        \* history: what the first of two runs submitted and left
    stock_fundamentals, \* table stock_fundamentals: symbol -> marketcap
    fundamental_data, \* insert_fundamental_data: its argument
    attempt,          \* insert_fundamental_data: attempt (line 186)
    ins_pc,           \* position of the insert_fundamental_data call
    ins_ret,          \* value returned by insert_fundamental_data
    ins_log,          \* history: the execute and connect calls of the call
    run_args,         \* StockIndicatorSystem.run: its arguments
    run_pc,           \* position of the StockIndicatorSystem.run call
    run_exc,          \* run: the exception on its way to the caller
    run_log,          \* history: the steps of run, in the order they ran
    hot_conn,         \* HotStockFinder.conn: "open" or "closed"
    db_conn,          \* DatabaseManager.conn: "open" or "closed"
    hot_stocks        \* table hot_stocks: the (symbol, date) keys it holds

\* The value of first_run while no run has been followed by another.
NoRun == [absent |-> TRUE]

insVars == << stock_fundamentals, fundamental_data, attempt, ins_pc, ins_ret,
             ins_log >>

runVars == << run_args, run_pc, run_exc, run_log, hot_conn, db_conn,
             hot_stocks >>

vars == << stockdatas, stockindicators, batch_size, pc, target_date, symbols,
           idx, result, batch, total_written, ret, invoked, flushes, last_acc,
           fn_values, fn_window, fn_recent, fn_lows, fn_closes, fn_target,
           fn_out, first_run, insVars, runVars >>

driverVars == << stockindicators, batch_size, pc, target_date, symbols, idx,
                 result, batch, total_written, ret, invoked, flushes,
                 last_acc >>

fnVars == << fn_values, fn_window, fn_recent, fn_lows, fn_closes, fn_target,
            fn_out >>

fnInputs == << fn_values, fn_window, fn_recent, fn_lows, fn_closes,
              fn_target >>

driverVars_but_pc == << stockindicators, batch_size, target_date, symbols,
                        idx, result, batch, total_written, ret, invoked,
                        flushes, last_acc >>

---------------------------------------------------------------------------
(* Values *)

\* Python's None (an absent result, a NULL column).
None == -1000000

\* The result "no record" of calculate_for_symbol (return None).
NoRecord == [absent |-> TRUE]

\* No insert_fundamental_data call is under way.
InsIdle ==
    /\ stock_fundamentals = << >>
    /\ fundamental_data = NoRecord
    /\ attempt = 0
    /\ ins_pc = "idle"
    /\ ins_ret = "none"
    /\ ins_log = << >>

\* No StockIndicatorSystem.run call is under way.
RunIdle ==
    /\ run_args = NoRecord
    /\ run_pc = "idle"
    /\ run_exc = "none"
    /\ run_log = << >>
    /\ hot_conn = "open"
    /\ db_conn = "open"
    /\ hot_stocks = {}

\* A test for None alone, which lets a zero through.
TruthyNotNone(v) == v /= None

\* Python truthiness of a numeric column: None and zero are both false.
Truthy(v) == v /= None /\ v /= 0

\* The element of a one-element set.  A Python local is evaluated once,
\* when it is assigned: TheOne({e(x) : x \in {v}}) is e(v) with v evaluated
\* once, as for a local x = v.
TheOne(S) == CHOOSE x \in S : TRUE

Min(a, b) == IF a < b THEN a ELSE b

Max(a, b) == IF a > b THEN a ELSE b

Abs(a) == IF a < 0 THEN -a ELSE a

\* values[:k]
Take(s, k) == SubSeq(s, 1, Min(k, Len(s)))

\* values[k:]
Drop(s, k) == SubSeq(s, Min(k, Len(s)) + 1, Len(s))

\* list(reversed(s))
Reverse(s) == [i \in 1..Len(s) |-> s[Len(s) + 1 - i]]

\* The accumulating loops over a slice are evaluated by halves of the slice
\* (the sum of a range is the sum of its lower half plus that of its upper
\* half), which keeps the evaluation shallow and the result the loop's.

\* What "for val in s[lo-1:hi]: if val is not None: total += val" adds.
RECURSIVE AddNotNone(_, _, _)
AddNotNone(s, lo, hi) ==
    IF lo > hi THEN 0
    ELSE IF lo = hi THEN (IF s[lo] /= None THEN s[lo] ELSE 0)
    ELSE AddNotNone(s, lo, (lo + hi) \div 2)
         + AddNotNone(s, (lo + hi) \div 2 + 1, hi)

\* Sum of the entries of s that are not None, over positions 1..k.
SumNotNone(s, k) == AddNotNone(s, 1, k)

\* Rounding towards zero (ROUND_DOWN) in place of ROUND_HALF_UP.
QuantizeDown(num, den) ==
    IF num >= 0 THEN num \div den ELSE -((-num) \div den)

\* Decimal.quantize(Decimal('0.01'), rounding=ROUND_HALF_UP) of the exact
\* quotient num/den of two amounts in cents: the nearest cent, a tie going
\* away from zero.
QuantizeHalfUp(num, den) ==
    IF num >= 0 THEN (2 * num + den) \div (2 * den)
    ELSE -((2 * (-num) + den) \div (2 * den))

---------------------------------------------------------------------------
(* Program constants *)

\* calculate_for_symbol: days=250 of the primary history request.
HISTORY_DAYS == 250

\* A slip in the bar minimum: one bar too few is let through.
MIN_BARS_OffByOne == 200 - 1

\* calculate_for_symbol: the minimum number of bars for a record.
MIN_BARS == 200

\* _calculate_highs: days=420 of the wider history request.
HIGHS_DAYS == 420

\* _calculate_highs: timedelta(days=365) and timedelta(days=182).
DAYS_52W == 365

DAYS_6M == 182

\* The windows of the twelve moving averages.
SmaWindows == {5, 10, 20, 50, 100, 200}

---------------------------------------------------------------------------
(* Bounds of the model *)

\* Symbols of the price store are 1..MaxSymbols.
MaxSymbols == 3

\* batch_size ranges over 1..MaxBatch.
MaxBatch == 3

Symbols == 1..MaxSymbols

\* The day number of the most recent trading day of the model.
Today == 1000

---------------------------------------------------------------------------
(* The price store (table stockdatas).  The bars of a symbol are described   *)
(* by [n, last, kind]: n bars on consecutive days ending on day last, bar 1  *)
(* the most recent; kind says which columns are NULL or zero where.          *)

Kinds == {"full", "nullclose", "nullhigh", "nulllow", "zerovol", "nullvol",
          "allnull", "gaphigh", "gapvol", "flat"}

BarClose(kind, i) ==
    IF kind = "allnull" \/ (kind = "nullclose" /\ i % 3 = 0) THEN None
    ELSE IF kind = "flat" THEN 10000
    ELSE 1000 + 13 * ((i * 7) % 11)

BarOpen(kind, i) ==
    IF kind = "allnull" THEN None
    ELSE IF kind = "flat" THEN 10000
    ELSE 995 + 13 * ((i * 7) % 11)

BarHigh(kind, i) ==
    IF kind \in {"allnull", "nullhigh"} \/ (kind = "gaphigh" /\ i % 5 = 2)
    THEN None
    ELSE IF kind = "flat" THEN 10000
    ELSE 1020 + 13 * ((i * 7) % 11) + (i % 4)

BarLow(kind, i) ==
    IF kind \in {"allnull", "nulllow"} THEN None
    ELSE IF kind = "flat" THEN 10000
    ELSE 985 + 13 * ((i * 7) % 11) - (i % 3)

BarVolume(kind, i) ==
    IF kind \in {"allnull", "nullvol"} THEN None
    ELSE IF kind = "zerovol" \/ (kind = "gapvol" /\ i % 4 = 1) THEN 0
    ELSE IF kind = "flat" THEN 50
    ELSE 100 + 10 * (i % 6)

\* The i-th most recent stored bar of a symbol described by d.
StoredBar(d, i) ==
    [date   |-> d.last - (i - 1),
     open   |-> BarOpen(d.kind, i),
     high   |-> BarHigh(d.kind, i),
     low    |-> BarLow(d.kind, i),
     close  |-> BarClose(d.kind, i),
     volume |-> BarVolume(d.kind, i)]

\* get_price_history: the row conversion of lines 112-121 (a NULL volume
\* becomes 0, the other columns are kept).
ConvertRow(row) ==
    [row EXCEPT !.volume = IF row.volume /= None THEN row.volume ELSE 0]

\* get_price_history(symbol, days) when the query succeeds: the most recent
\* days bars, date descending.
QueryHistory(d, days) ==
    [i \in 1..Min(d.n, days) |-> ConvertRow(StoredBar(d, i))]

\* How a call of the database layer ends: "ok", "error" (mysql Error, caught
\* inside DatabaseManager) or "raise" (any other exception, e.g. a malformed
\* row in the conversion, which leaves DatabaseManager).
Outcomes == {"ok", "error", "raise"}

\* get_price_history(symbol, days) for an outcome that returns.
get_price_history(d, days, outcome) ==
    IF outcome = "ok" THEN QueryHistory(d, days) ELSE << >>

\* get_latest_date when the query succeeds: SELECT MAX(date), None for an
\* empty table.
MaxDate(store) ==
    LET have == {s \in DOMAIN store : store[s].n > 0}
    IN IF have = {} THEN None
       ELSE CHOOSE m \in {store[s].last : s \in have} :
                \A s \in have : store[s].last <= m

get_latest_date(store, outcome) ==
    IF outcome = "ok" THEN MaxDate(store) ELSE None

\* The sequence of the elements of a set of integers in increasing order.
RECURSIVE SortedSeq(_)
SortedSeq(S) ==
    IF S = {} THEN << >>
    ELSE LET m == CHOOSE x \in S : \A y \in S : x <= y
         IN << m >> \o SortedSeq(S \ {m})

\* A symbol query without the date condition: every symbol with a bar.
get_all_symbols_AnyDate(store, outcome) ==
    IF outcome = "ok"
    THEN SortedSeq({s \in DOMAIN store : store[s].n > 0})
    ELSE << >>

\* get_all_symbols: the symbols with a bar on MAX(date), ORDER BY symbol;
\* [] on a mysql Error.
get_all_symbols(store, outcome) ==
    IF outcome = "ok"
    THEN SortedSeq({s \in DOMAIN store :
                       store[s].n > 0 /\ store[s].last = MaxDate(store)})
    ELSE << >>

---------------------------------------------------------------------------
(* The metric library *)

\* _sma(values, window)
_sma(values, window) ==
    IF Len(values) < window THEN None
    ELSE QuantizeHalfUp(SumNotNone(values, window), window)

\* A previous-day average without the offset: the window starts at the most
\* recent value.
_sma_prev_NoOffset(values, window) ==
    IF Len(values) < window + 1 THEN None
    ELSE QuantizeHalfUp(SumNotNone(values, window), window)

\* A previous-day average with the length requirement of _sma: window
\* values are enough, and with exactly window values the window - 1 values
\* after the most recent one are summed.
_sma_prev_SameThreshold(values, window) ==
    IF Len(values) < window THEN None
    ELSE QuantizeHalfUp(SumNotNone(Drop(values, 1),
                                   Min(window, Len(values) - 1)), window)

\* _sma_prev(values, window)
_sma_prev(values, window) ==
    IF Len(values) < window + 1 THEN None
    ELSE QuantizeHalfUp(SumNotNone(Drop(values, 1), window), window)

\* total_range and count after the loop over zip(highs[:k], lows[:k]).
RECURSIVE RangeSum(_, _, _)
RangeSum(highs, lows, k) ==
    IF k = 0 THEN [total |-> 0, count |-> 0]
    ELSE LET rest == RangeSum(highs, lows, k - 1)
         IN IF highs[k] /= None /\ lows[k] /= None
            THEN [total |-> rest.total + (highs[k] - lows[k]),
                  count |-> rest.count + 1]
            ELSE rest

\* _adr20(highs, lows): (total_range / 20) * 100, in cents 5 * total_range.
_adr20(highs, lows) ==
    IF Len(highs) < 20 \/ Len(lows) < 20 THEN None
    ELSE LET r == RangeSum(highs, lows, 20)
         IN IF r.count < 20 THEN None
            ELSE QuantizeHalfUp(r.total * 100, 20)

\* sum(s[lo-1:hi])
RECURSIVE AddAll(_, _, _)
AddAll(s, lo, hi) ==
    IF lo > hi THEN 0
    ELSE IF lo = hi THEN s[lo]
    ELSE AddAll(s, lo, (lo + hi) \div 2) + AddAll(s, (lo + hi) \div 2 + 1, hi)

\* sum(volumes[:k])
SumFirst(s, k) == AddAll(s, 1, k)

\* _avd20(closes, volumes): (total_close / 20) * (total_volume / 20).
_avd20(closes, volumes) ==
    IF Len(closes) < 20 \/ Len(volumes) < 20 THEN None
    ELSE QuantizeHalfUp(SumNotNone(closes, 20) * SumFirst(volumes, 20), 400)

\* Whether num/den lies exactly midway between two hundredths.
Midway(num, den) == (200 * num) % (2 * den) = den

\* round(x, 2) for the float x of a quotient num/den of non-negative
\* integers (den > 0), in hundredths: the hundredth nearest to the quotient.
\* A quotient exactly midway between two hundredths is rounded by Python
\* according to the binary value of x, which the two float roundings of
\* mean() and of the division put on either side of the midpoint; the even
\* hundredth stands for it here, and the volumes of this model give no
\* midway quotient (the metric is not called on one).
RoundFloat2(num, den) ==
    IF 2 * ((100 * num) % den) > den
       \/ (Midway(num, den) /\ ((100 * num) \div den) % 2 = 1)
    THEN (100 * num) \div den + 1
    ELSE (100 * num) \div den

\* A volume ratio without the check of a zero average: the division by zero
\* is shown as the largest integer.
_volume_ratio_NoZeroCheck(volumes, recent, window) ==
    IF Len(volumes) < Max(recent, window) THEN None
    ELSE IF SumFirst(volumes, window) = 0 THEN 2147483647
    ELSE RoundFloat2(SumFirst(volumes, recent) * window,
                     SumFirst(volumes, window))

\* A ratio of the mean of the recent volumes to the mean of the window.
_volume_ratio_OfMeans(volumes, recent, window) ==
    IF Len(volumes) < Max(recent, window) THEN None
    ELSE IF SumFirst(volumes, window) = 0 THEN None
    ELSE RoundFloat2(SumFirst(volumes, recent) * window,
                     SumFirst(volumes, window) * recent)

\* _volume_ratio(volumes, recent, window), in hundredths:
\* sum(volumes[:recent]) / mean(volumes[:window]); the mean of non-negative
\* integers is zero exactly when their sum is.
_volume_ratio(volumes, recent, window) ==
    IF Len(volumes) < Max(recent, window) THEN None
    ELSE IF SumFirst(volumes, window) = 0 THEN None
    ELSE RoundFloat2(SumFirst(volumes, recent) * window,
                     SumFirst(volumes, window))

\* ------------------------------------------------------------------------
\* The Decimal arithmetic of _atr14.  The highs, lows and closes handed to
\* it are the Decimal values of the price store, so sum(TR[:14]) / 14 and
\* ((13 * atr) + TR[i]) / 14 are Decimal operations: each result is the
\* exact one rounded to the 28 significant digits of the default context,
\* ties to even.  A non-negative Decimal is held as [d, e]: the digits d of
\* its coefficient, most significant first (none for zero), and its exponent
\* e; its value is d * 10^e.

\* The precision of the default Decimal context.
DecPrec == 28

\* The trailing zeros the dividend of a division is extended by, enough for
\* a quotient by 14 of more than DecPrec digits.
DecExtra == 30

\* The decimal digits of a natural number.
RECURSIVE DecDigits(_)
DecDigits(n) == IF n = 0 THEN << >> ELSE Append(DecDigits(n \div 10), n % 10)

\* The natural number of a short sequence of digits.
RECURSIVE DecNat(_)
DecNat(d) ==
    IF d = << >> THEN 0
    ELSE 10 * DecNat(SubSeq(d, 1, Len(d) - 1)) + d[Len(d)]

\* k zeros.
Zeros(k) == [i \in 1..k |-> 0]

\* d without its leading zeros.
DecStrip(d) ==
    IF \A i \in 1..Len(d) : d[i] = 0 THEN << >>
    ELSE SubSeq(d, CHOOSE i \in 1..Len(d) :
                       d[i] /= 0 /\ \A j \in 1..(i - 1) : d[j] = 0,
                Len(d))

\* d plus one.
DecIncrement(d) ==
    IF \A i \in 1..Len(d) : d[i] = 9 THEN << 1 >> \o Zeros(Len(d))
    ELSE LET p == CHOOSE i \in 1..Len(d) :
                      d[i] /= 9 /\ \A j \in (i + 1)..Len(d) : d[j] = 9
         IN [i \in 1..Len(d) |->
                IF i < p THEN d[i] ELSE IF i = p THEN d[i] + 1 ELSE 0]

\* ROUND_HALF_EVEN: whether the kept digits are rounded up when the digits
\* dropped (at least one) are cut off; sticky says that a non-zero remainder
\* follows the dropped digits.
DecRoundsUp(keep, dropped, sticky) ==
    LET rest == sticky \/ \E i \in 2..Len(dropped) : dropped[i] /= 0
    IN \/ dropped[1] > 5
       \/ dropped[1] = 5 /\ rest
       \/ /\ dropped[1] = 5
          /\ ~rest
          /\ keep /= << >>
          /\ keep[Len(keep)] % 2 = 1

\* The exact result d * 10^e (followed by a remainder when sticky) rounded
\* to DecPrec significant digits.
DecRound(d, e, sticky) ==
    IF Len(d) <= DecPrec THEN [d |-> d, e |-> e]
    ELSE IF DecRoundsUp(SubSeq(d, 1, DecPrec),
                        SubSeq(d, DecPrec + 1, Len(d)), sticky)
         THEN [d |-> DecIncrement(SubSeq(d, 1, DecPrec)),
               e |-> e + (Len(d) - DecPrec)]
         ELSE [d |-> SubSeq(d, 1, DecPrec), e |-> e + (Len(d) - DecPrec)]

\* << carry, digits >> of m times the digits lo..hi of d plus the carry
\* from the digits after them: the lower half of the digits first, the
\* upper half with the carry they leave.
RECURSIVE DecTimesRange(_, _, _, _, _)
DecTimesRange(d, m, lo, hi, carry) ==
    IF lo > hi THEN << carry, << >> >>
    ELSE IF lo = hi
    THEN << (d[lo] * m + carry) \div 10, << (d[lo] * m + carry) % 10 >> >>
    ELSE TheOne({TheOne({<< l[1], l[2] \o r[2] >> :
                            l \in {DecTimesRange(d, m, lo, (lo + hi) \div 2,
                                                 r[1])}}) :
                    r \in {DecTimesRange(d, m, (lo + hi) \div 2 + 1, hi,
                                         carry)}})

\* m * x for a small natural number m.
DecTimes(m, x) ==
    TheOne({TheOne({DecRound(DecStrip(DecDigits(r[1]) \o r[2]), x.e, FALSE) :
                       r \in {DecTimesRange(d, m, 1, Len(d), 0)}}) :
               d \in {x.d}})

\* << carry, digits >> of the sum of the digits lo..hi of a and of b, two
\* sequences of the same length, plus the carry from the digits after them.
RECURSIVE DecPlusRange(_, _, _, _, _)
DecPlusRange(a, b, lo, hi, carry) ==
    IF lo > hi THEN << carry, << >> >>
    ELSE IF lo = hi
    THEN << (a[lo] + b[lo] + carry) \div 10,
            << (a[lo] + b[lo] + carry) % 10 >> >>
    ELSE TheOne({TheOne({<< l[1], l[2] \o r[2] >> :
                            l \in {DecPlusRange(a, b, lo, (lo + hi) \div 2,
                                                r[1])}}) :
                    r \in {DecPlusRange(a, b, (lo + hi) \div 2 + 1, hi,
                                        carry)}})

\* The sum of the coefficients a and b of one exponent e.
DecPlusAligned(a, b, e) ==
    TheOne({DecRound(DecStrip(DecDigits(r[1]) \o r[2]), e, FALSE) :
               r \in {DecPlusRange(a, b, 1, Len(a), 0)}})

\* x + y: the coefficients are brought to the smaller exponent and to one
\* length, and added.
DecPlus(x, y) ==
    TheOne({TheOne({DecPlusAligned(Zeros(n - Len(a)) \o a,
                                   Zeros(n - Len(b)) \o b, e) :
                       n \in {Max(Len(a), Len(b))}}) :
               e \in {Min(x.e, y.e)},
               a \in {x.d \o Zeros(x.e - Min(x.e, y.e))},
               b \in {y.d \o Zeros(y.e - Min(x.e, y.e))}})

\* << quotient digits, remainder >> of the long division by m of the
\* digits lo..hi of d, entered with the remainder rem of the digits before
\* them: the upper half of the digits first.
RECURSIVE DecDivRange(_, _, _, _, _)
DecDivRange(d, m, lo, hi, rem) ==
    IF lo > hi THEN << << >>, rem >>
    ELSE IF lo = hi
    THEN << << (rem * 10 + d[lo]) \div m >>, (rem * 10 + d[lo]) % m >>
    ELSE TheOne({TheOne({<< l[1] \o r[1], r[2] >> :
                            r \in {DecDivRange(d, m, (lo + hi) \div 2 + 1, hi,
                                               l[2])}}) :
                    l \in {DecDivRange(d, m, lo, (lo + hi) \div 2, rem)}})

\* x / m for a small natural number m > 0.
DecDividedBy(x, m) ==
    IF x.d = << >> THEN x
    ELSE TheOne({TheOne({DecRound(DecStrip(q[1]), x.e - DecExtra,
                                  q[2] /= 0) :
                            q \in {DecDivRange(d, m, 1, Len(d), 0)}}) :
                    d \in {x.d \o Zeros(DecExtra)}})

\* The Decimal of an amount in cents.
DecOfCents(c) == [d |-> DecDigits(c), e |-> -2]

\* round(x, 2) of a Decimal: quantize to two places, ROUND_HALF_EVEN; the
\* result in cents.
DecRound2(x) ==
    IF x.e >= -2 THEN DecNat(x.d \o Zeros(x.e + 2))
    ELSE IF -2 - x.e > Len(x.d) THEN 0
    ELSE TheOne({DecNat(keep)
                 + (IF DecRoundsUp(keep, SubSeq(x.d, Len(keep) + 1, Len(x.d)),
                                   FALSE)
                    THEN 1 ELSE 0) :
                    keep \in {SubSeq(x.d, 1, Len(x.d) - (-2 - x.e))}})

\* max(a, b, c)
Max3(a, b, c) == Max(a, Max(b, c))

\* Lines 105-113: the True Ranges of the chronological series H, L, C of
\* which n bars are used: one for each bar but the oldest (all are finite).
TrueRanges(H, L, C, n) ==
    [i \in 1..(n - 1) |->
        Max3(H[i + 1] - L[i + 1], Abs(H[i + 1] - C[i]), Abs(L[i + 1] - C[i]))]

\* A smoothing step that weighs the new True Range like the old average.
WilderStep_EqualWeights(atr, tr) ==
    TheOne({DecDividedBy(t, 2) : t \in {DecPlus(atr, DecOfCents(tr))}})

\* Line 121: atr = ((13 * atr) + TR[i]) / 14.
WilderStep(atr, tr) ==
    TheOne({TheOne({DecDividedBy(t, 14) :
                       t \in {DecPlus(p, DecOfCents(tr))}}) :
               p \in {DecTimes(13, atr)}})

\* Lines 120-121: atr after the steps for TR[lo..hi], the steps of the lower
\* half first and those of the upper half from their result.
RECURSIVE Smooth(_, _, _, _)
Smooth(TR, lo, hi, atr) ==
    IF lo > hi THEN atr
    ELSE IF lo = hi THEN WilderStep(atr, TR[lo])
    ELSE TheOne({Smooth(TR, (lo + hi) \div 2 + 1, hi, a) :
                    a \in {Smooth(TR, lo, (lo + hi) \div 2, atr)}})

\* Lines 115-123 for the list TR of True Ranges, in cents.
AtrOfRanges(TR) ==
    IF Len(TR) < 14 THEN None
    ELSE TheOne({DecRound2(a) :
                    a \in {Smooth(TR, 15, Len(TR),
                                  DecDividedBy(DecOfCents(SumFirst(TR, 14)),
                                               14))}})

\* _atr14(highs, lows, closes), the series most recent first, in cents.
_atr14(highs, lows, closes) ==
    IF Min(Len(highs), Min(Len(lows), Len(closes))) < 15 THEN None
    ELSE TheOne({AtrOfRanges(TR) :
                    TR \in {TrueRanges(Reverse(highs), Reverse(lows),
                                       Reverse(closes),
                                       Min(Len(highs),
                                           Min(Len(lows), Len(closes))))}})

\* A step of the scan in which a close equal to the running maximum
\* replaces it as well.
MaxStep_LastWins(acc, close, date) ==
    IF Truthy(close) /\ (acc[1] = None \/ close >= acc[1])
    THEN << close, date >>
    ELSE acc

\* find_max_close(data) of _calculate_highs: a scan from the oldest bar on,
\* a close replacing the running maximum only when strictly greater.
\* One step of the scan: the row's close replaces the running maximum acc
\* (<< max_close, max_date >>) when it is truthy and the maximum is None or
\* strictly smaller.
MaxStep(acc, close, date) ==
    IF Truthy(close) /\ (acc[1] = None \/ close > acc[1])
    THEN << close, date >>
    ELSE acc

\* << max_close, max_date >> after the scan of rows lo..hi from
\* << None, None >>: the scan of the lower half, continued over the upper
\* half, whose own result replaces it exactly when a step would.
RECURSIVE ScanMax(_, _, _)
ScanMax(data, lo, hi) ==
    IF lo > hi THEN << None, None >>
    ELSE IF lo = hi
         THEN MaxStep(<< None, None >>, data[lo].close, data[lo].date)
    ELSE TheOne({MaxStep(lower, upper[1], upper[2]) :
                    lower \in {ScanMax(data, lo, (lo + hi) \div 2)},
                    upper \in {ScanMax(data, (lo + hi) \div 2 + 1, hi)}})

find_max_close(data) ==
    TheOne({IF Truthy(m[1]) THEN m ELSE << None, None >> :
               m \in {ScanMax(data, 1, Len(data))}})

\* The two scans with their cutoffs exchanged: the 52-week high over the
\* last 182 days, the 6-month high over the last 365.
_calculate_highs_SwappedCutoffs(rows, target) ==
    IF rows = << >> THEN << None, None, None, None >>
    ELSE TheOne({<< y[1], y[2], m[1], m[2] >> :
                    y \in {find_max_close(SelectSeq(Reverse(rows),
                              LAMBDA r : r.date >= target - DAYS_6M))},
                    m \in {find_max_close(SelectSeq(Reverse(rows),
                              LAMBDA r : r.date >= target - DAYS_52W))}})

\* _calculate_highs(symbol, target_date), rows being what
\* get_price_history(symbol, days=420) returned.
_calculate_highs(rows, target) ==
    IF rows = << >> THEN << None, None, None, None >>
    ELSE TheOne({<< y[1], y[2], m[1], m[2] >> :
                    y \in {find_max_close(SelectSeq(Reverse(rows),
                              LAMBDA r : r.date >= target - DAYS_52W))},
                    m \in {find_max_close(SelectSeq(Reverse(rows),
                              LAMBDA r : r.date >= target - DAYS_6M))}})

---------------------------------------------------------------------------
(* The per-symbol calculator *)

\* [r[k] for r in rows if r[k]]: the truthy values of one column.
Column(rows, f) ==
    TheOne({[i \in 1..Len(kept) |-> kept[i][f]] :
               kept \in {SelectSeq(rows, LAMBDA r : Truthy(r[f]))}})

\* Whether the call calculate_for_symbol raised inside its try block (and
\* returned None from the handler of line 223): the primary history request
\* raised, or the request of _calculate_highs did, which is made only once
\* the checks of lines 172 and 182 have passed.
CalcRaised(d, o250, o420) ==
    \/ o250 = "raise"
    \/ /\ o420 = "raise"
       /\ \E rows \in {get_price_history(d, HISTORY_DAYS, o250)} :
             /\ Len(rows) >= MIN_BARS
             /\ \A f \in {"close", "high", "low", "volume"} :
                    Column(rows, f) /= << >>

\* Lines 185-221: the metrics of the extracted series and the record.
\* o420 says how the history request of _calculate_highs ends.
AssembleRecord(symbol, d, target, closes, highs, lows, volumes, o420) ==
    IF closes = << >> \/ highs = << >> \/ lows = << >> \/ volumes = << >>
    THEN NoRecord
    ELSE IF o420 = "raise" THEN NoRecord
    ELSE TheOne({
        [symbol   |-> symbol,
         date     |-> target,
         sma5     |-> _sma(closes, 5),
         sma10    |-> _sma(closes, 10),
         sma20    |-> _sma(closes, 20),
         sma50    |-> _sma(closes, 50),
         sma100   |-> _sma(closes, 100),
         sma200   |-> _sma(closes, 200),
         sma5s1   |-> _sma_prev(closes, 5),
         sma10s1  |-> _sma_prev(closes, 10),
         sma20s1  |-> _sma_prev(closes, 20),
         sma50s1  |-> _sma_prev(closes, 50),
         sma100s1 |-> _sma_prev(closes, 100),
         sma200s1 |-> _sma_prev(closes, 200),
         adr20    |-> _adr20(highs, lows),
         avd20    |-> _avd20(closes, volumes),
         atr14    |-> _atr14(highs, lows, closes),
         a130     |-> _volume_ratio(volumes, 1, 30),
         a260     |-> _volume_ratio(volumes, 2, 60),
         a390     |-> _volume_ratio(volumes, 3, 90),
         ftwh     |-> hi[1],
         ftwhdate |-> hi[2],
         tswh     |-> hi[3],
         tswhdate |-> hi[4]] :
        hi \in {_calculate_highs(get_price_history(d, HIGHS_DAYS, o420),
                                 target)}})

\* Lines 172-183: the length check and the extraction of the series.
CalcFromRows(symbol, d, target, rows, o420) ==
    IF Len(rows) < MIN_BARS THEN NoRecord
    ELSE TheOne({
        AssembleRecord(symbol, d, target, closes, highs, lows, volumes, o420) :
        closes  \in {Column(rows, "close")},
        highs   \in {Column(rows, "high")},
        lows    \in {Column(rows, "low")},
        volumes \in {Column(rows, "volume")}})

\* calculate_for_symbol(symbol, target_date) for a symbol whose bars are
\* described by d; o250 and o420 say how the two history requests end.  An
\* exception raised in the try block makes the handler of line 223 return
\* None.
calculate_for_symbol(symbol, d, target, o250, o420) ==
    IF o250 = "raise" THEN NoRecord
    ELSE TheOne({CalcFromRows(symbol, d, target, rows, o420) :
                    rows \in {get_price_history(d, HISTORY_DAYS, o250)}})

---------------------------------------------------------------------------
(* Specification SpecCalc: one call of calculate_for_symbol against a store  *)
(* whose symbol 1 has bars of every length and kind of interest.             *)

NoBars == [n |-> 0, last |-> Today, kind |-> "full"]

CalcLengths == {0, 1, 199, 200, 201, 250, 251, 421}

TargetDates == {Today - 1, Today}

InitCalc ==
    /\ \E n \in CalcLengths, k \in Kinds, l \in TargetDates :
          stockdatas = [s \in Symbols |->
                           IF s = 1 THEN [n |-> n, last |-> l, kind |-> k]
                           ELSE NoBars]
    /\ stockindicators = {}
    /\ batch_size = 1
    /\ pc = "idle"
    /\ target_date = None
    /\ symbols = << >>
    /\ idx = 0
    /\ result = NoRecord
    /\ batch = << >>
    /\ total_written = 0
    /\ ret = None
    /\ invoked = << >>
    /\ flushes = << >>
    /\ last_acc = << "ok", "ok" >>
    /\ fn_values = << >>
    /\ fn_window = 0
    /\ fn_recent = 0
    /\ fn_lows = << >>
    /\ fn_closes = << >>
    /\ fn_target = None
    /\ fn_out = None
    /\ first_run = NoRun
    /\ InsIdle
    /\ RunIdle

\* A caller invokes calculate_for_symbol(symbol, target) once.
CallCalculate ==
    /\ pc = "idle"
    /\ \E s \in Symbols, t \in TargetDates, o250 \in Outcomes,
          o420 \in Outcomes :
          /\ result' = calculate_for_symbol(s, stockdatas[s], t, o250, o420)
          /\ target_date' = t
          /\ invoked' = << [symbol |-> s, result |-> result'] >>
          /\ last_acc' = << o250, o420 >>
    /\ pc' = "returned"
    /\ UNCHANGED << stockdatas, stockindicators, batch_size, symbols, idx,
                    batch, total_written, ret, flushes, fnVars, first_run,
                    insVars, runVars >>

NextCalc == CallCalculate

SpecCalc == InitCalc /\ [][NextCalc]_vars

---------------------------------------------------------------------------
(* The persistence sink *)

\* The rows of the indicator table after the upsert of data: a row of data
\* replaces the row with its (symbol, date).
Upsert(table, data) ==
    {r \in table : \A i \in 1..Len(data) :
                       ~(data[i].symbol = r.symbol /\ data[i].date = r.date)}
    \cup {data[i] : i \in 1..Len(data)}

\* cursor.rowcount of INSERT ... ON DUPLICATE KEY UPDATE: per row of data 1
\* when its key is new, 2 when it changes the row of that key, 0 when it
\* leaves it as it is.
RECURSIVE RowCount(_, _, _)
RowCount(table, data, k) ==
    IF k = 0 THEN 0
    ELSE RowCount(table, data, k - 1)
         + (IF data[k] \in table THEN 0
            ELSE IF \E r \in table : r.symbol = data[k].symbol
                                     /\ r.date = data[k].date
                 THEN 2 ELSE 1)

\* The value batch_insert_indicators(data) returns: the row count when the
\* statement succeeds, 0 when a mysql Error is caught (line 170).
batch_insert_indicators(table, data, outcome) ==
    IF data = << >> THEN 0
    ELSE IF outcome = "ok" THEN RowCount(table, data, Len(data))
    ELSE 0

\* The indicator table after batch_insert_indicators(data).
TableAfterInsert(table, data, outcome) ==
    IF outcome = "ok" THEN Upsert(table, data) ELSE table

---------------------------------------------------------------------------
(* Specification Spec: one run of process_all_symbols(batch_size).           *)

\* The bars a symbol of the store may have in a run: none, 200 or 199 full
\* bars ending today, or 200 full bars ending the day before.
DriverBars ==
    { NoBars,
      [n |-> 200, last |-> Today, kind |-> "full"],
      [n |-> 199, last |-> Today, kind |-> "full"],
      [n |-> 200, last |-> Today - 1, kind |-> "full"] }

\* The bars a symbol may have in a run of the whole pipeline, before or
\* after the quotes of the day are stored: a flat history ending the day
\* before, the same with the bar of today, or the bar of today alone.
RunBars ==
    { [n |-> 200, last |-> Today - 1, kind |-> "flat"],
      [n |-> 201, last |-> Today, kind |-> "flat"],
      [n |-> 1, last |-> Today, kind |-> "flat"] }

\* How the two history requests of one calculate_for_symbol call may end
\* (the second is made only when the first succeeded).
CalcOutcomes ==
    { << "ok", "ok" >>, << "ok", "error" >>, << "ok", "raise" >>,
      << "error", "ok" >>, << "raise", "ok" >> }

\* calculate_for_symbol over the bars and outcomes of a run, evaluated once:
\* the pairs << arguments, result >>.
CalcTable ==
    {<< a, calculate_for_symbol(a[1], a[2], a[3], a[4][1], a[4][2]) >> :
        a \in Symbols \X (DriverBars \cup RunBars) \X TargetDates
                \X CalcOutcomes}

\* A calculator that keeps the symbols it has produced a record for and
\* returns None for them from then on.
CalcResult_OncePerSymbol(a) ==
    IF \E k \in 1..Len(invoked) :
          invoked[k].symbol = a[1] /\ invoked[k].result /= NoRecord
    THEN NoRecord
    ELSE TheOne({p[2] : p \in {q \in CalcTable : q[1] = a}})

\* The result CalcTable holds for the arguments a.
CalcResult(a) == TheOne({p[2] : p \in {q \in CalcTable : q[1] = a}})

\* The terminal positions of process_all_symbols: the returns of lines 233,
\* 238, 261 and 265.
Terminal == {"nodate", "nosymbols", "done", "aborted"}

\* The number of calculate_for_symbol calls of a behaviour of SpecAgain.
MaxInvocations == 3

\* Specification SpecAgain: calculate_for_symbol is called several times on
\* one IndicatorCalculator against a price store that does not change:
\* symbol 1 has 200 bars ending today, symbol 2 has 200 bars ending the day
\* before, the other symbols have none.
InitAgain ==
    /\ stockdatas = [s \in Symbols |->
                        IF s = 1
                        THEN [n |-> 200, last |-> Today, kind |-> "full"]
                        ELSE IF s = 2
                        THEN [n |-> 200, last |-> Today - 1, kind |-> "full"]
                        ELSE NoBars]
    /\ stockindicators = {}
    /\ batch_size = 1
    /\ pc = "idle"
    /\ target_date = None
    /\ symbols = << >>
    /\ idx = 0
    /\ result = NoRecord
    /\ batch = << >>
    /\ total_written = 0
    /\ ret = None
    /\ invoked = << >>
    /\ flushes = << >>
    /\ last_acc = << "ok", "ok" >>
    /\ fn_values = << >>
    /\ fn_window = 0
    /\ fn_recent = 0
    /\ fn_lows = << >>
    /\ fn_closes = << >>
    /\ fn_target = None
    /\ fn_out = None
    /\ first_run = NoRun
    /\ InsIdle
    /\ RunIdle

\* A caller invokes calculate_for_symbol(symbol, target) once more; the
\* history keeps the arguments and how the accessor answered.
CallAgain ==
    /\ pc \in {"idle", "returned"}
    /\ Len(invoked) < MaxInvocations
    /\ \E s \in Symbols, t \in TargetDates, o \in CalcOutcomes :
          /\ result' = CalcResult(<< s, stockdatas[s], t, o >>)
          /\ target_date' = t
          /\ invoked' = Append(invoked, [symbol |-> s, target |-> t,
                                         outcomes |-> o, result |-> result'])
          /\ last_acc' = o
    /\ pc' = "returned"
    /\ UNCHANGED << stockdatas, stockindicators, batch_size, symbols, idx,
                    batch, total_written, ret, flushes, fnVars, first_run,
                    insVars, runVars >>

NextAgain == CallAgain

SpecAgain == InitAgain /\ [][NextAgain]_vars

\* A row an earlier run left in stockindicators for symbol 1 and the date
\* Today, written before the bars of that day were complete.
EarlierRow ==
    [f \in {"symbol", "date", "sma5", "sma10", "sma20", "sma50", "sma100",
            "sma200", "sma5s1", "sma10s1", "sma20s1", "sma50s1", "sma100s1",
            "sma200s1", "adr20", "avd20", "atr14", "a130", "a260", "a390",
            "ftwh", "ftwhdate", "tswh", "tswhdate"} |->
        IF f = "symbol" THEN 1 ELSE IF f = "date" THEN Today ELSE None]

Init ==
    /\ stockdatas \in [Symbols -> DriverBars]
    /\ stockindicators \in {{}, {EarlierRow}}
    /\ batch_size \in 1..MaxBatch
    /\ pc = "start"
    /\ target_date = None
    /\ symbols = << >>
    /\ idx = 0
    /\ result = NoRecord
    /\ batch = << >>
    /\ total_written = 0
    /\ ret = None
    /\ invoked = << >>
    /\ flushes = << >>
    /\ last_acc = << "ok", "ok" >>
    /\ fn_values = << >>
    /\ fn_window = 0
    /\ fn_recent = 0
    /\ fn_lows = << >>
    /\ fn_closes = << >>
    /\ fn_target = None
    /\ fn_out = None
    /\ first_run = NoRun
    /\ InsIdle
    /\ RunIdle

\* Lines 230-233: target_date = self.db.get_latest_date(); an exception
\* leaving get_latest_date reaches the handler of line 263.
ResolveDate ==
    /\ pc = "start"
    /\ \E o \in Outcomes :
          IF o = "raise"
          THEN /\ pc' = "aborted"
               /\ ret' = 0
               /\ UNCHANGED target_date
          ELSE /\ target_date' = get_latest_date(stockdatas, o)
               /\ IF target_date' = None
                  THEN pc' = "nodate" /\ ret' = 0
                  ELSE pc' = "symbols" /\ UNCHANGED ret
    /\ UNCHANGED << stockdatas, stockindicators, batch_size, symbols, idx,
                    result, batch, total_written, invoked, flushes, last_acc,
                    fnVars, first_run,
                    insVars, runVars >>

\* The symbol step with a bare return (None) for the empty universe.
ResolveSymbols_ReturnsNone ==
    /\ pc = "symbols"
    /\ \E o \in Outcomes :
          IF o = "raise"
          THEN /\ pc' = "aborted"
               /\ ret' = 0
               /\ UNCHANGED << symbols, idx >>
          ELSE /\ symbols' = get_all_symbols(stockdatas, o)
               /\ IF symbols' = << >>
                  THEN pc' = "nosymbols" /\ ret' = None /\ UNCHANGED idx
                  ELSE pc' = "calc" /\ idx' = 1 /\ UNCHANGED ret
    /\ batch' = << >>
    /\ total_written' = 0
    /\ UNCHANGED << stockdatas, stockindicators, batch_size, target_date,
                    result, invoked, flushes, last_acc, fnVars, first_run,
                    insVars, runVars >>

\* Lines 235-243: symbols = self.db.get_all_symbols(), then the empty batch.
ResolveSymbols ==
    /\ pc = "symbols"
    /\ \E o \in Outcomes :
          IF o = "raise"
          THEN /\ pc' = "aborted"
               /\ ret' = 0
               /\ UNCHANGED << symbols, idx >>
          ELSE /\ symbols' = get_all_symbols(stockdatas, o)
               /\ IF symbols' = << >>
                  THEN pc' = "nosymbols" /\ ret' = 0 /\ UNCHANGED idx
                  ELSE pc' = "calc" /\ idx' = 1 /\ UNCHANGED ret
    /\ batch' = << >>
    /\ total_written' = 0
    /\ UNCHANGED << stockdatas, stockindicators, batch_size, target_date,
                    result, invoked, flushes, last_acc, fnVars, first_run,
                    insVars, runVars >>

\* Lines 245-248: result = self.calculate_for_symbol(symbol, target_date)
\* for the symbol of the loop, appended to batch when it is a record.
Calculate ==
    /\ pc = "calc"
    /\ \E o \in CalcOutcomes :
          /\ result' = CalcResult(<< symbols[idx], stockdatas[symbols[idx]],
                                     target_date, o >>)
          /\ last_acc' = o
    /\ invoked' = Append(invoked,
                         [symbol |-> symbols[idx], result |-> result'])
    /\ batch' = IF result' /= NoRecord THEN Append(batch, result') ELSE batch
    /\ pc' = "check"
    /\ UNCHANGED << stockdatas, stockindicators, batch_size, target_date,
                    symbols, idx, total_written, ret, flushes, fnVars,
                    first_run, insVars, runVars >>

\* A full-batch test that lets the batch grow one record past batch_size.
BatchFullLate(b, size) == Len(b) > size

\* Line 250: len(batch) >= batch_size.
BatchFull(b, size) == Len(b) >= size

\* A batch that is not cleared after its flush.
NotCleared(b) == b

\* Line 253: batch.clear().
Cleared(b) == << >>

\* The for loop goes to the next symbol, or ends.
NextPosition == IF idx < Len(symbols) THEN "calc" ELSE "remainder"

\* The flush of a full batch without the handler of line 263: an exception
\* leaving batch_insert_indicators leaves process_all_symbols too, which
\* returns nothing.
FlushFull_Unhandled ==
    /\ pc = "check"
    /\ BatchFull(batch, batch_size)
    /\ \E o \in Outcomes :
          /\ flushes' = Append(flushes,
                [data |-> batch, outcome |-> o, inloop |-> TRUE,
                 written |-> batch_insert_indicators(stockindicators,
                                                     batch, o)])
          /\ stockindicators' = TableAfterInsert(stockindicators, batch, o)
          /\ IF o = "raise"
             THEN /\ pc' = "raised"
                  /\ UNCHANGED << batch, total_written, idx >>
             ELSE /\ total_written' = total_written
                        + batch_insert_indicators(stockindicators, batch, o)
                  /\ batch' = << >>
                  /\ pc' = (IF idx < Len(symbols) THEN "calc" ELSE "remainder")
                  /\ idx' = idx + 1
    /\ UNCHANGED << stockdatas, batch_size, target_date, symbols, result,
                    ret, invoked, last_acc, fnVars, first_run,
                    insVars, runVars >>

\* Lines 250-253: the batch is full: written = batch_insert_indicators(batch),
\* total_written += written, batch.clear(); an exception leaving
\* batch_insert_indicators reaches the handler of line 263.
FlushFull ==
    /\ pc = "check"
    /\ BatchFull(batch, batch_size)
    /\ \E o \in Outcomes :
          /\ flushes' = Append(flushes,
                [data |-> batch, outcome |-> o, inloop |-> TRUE,
                 written |-> batch_insert_indicators(stockindicators,
                                                     batch, o)])
          /\ stockindicators' = TableAfterInsert(stockindicators, batch, o)
          /\ IF o = "raise"
             THEN /\ pc' = "aborted"
                  /\ ret' = 0
                  /\ UNCHANGED << batch, total_written, idx >>
             ELSE /\ total_written' = total_written
                        + batch_insert_indicators(stockindicators, batch, o)
                  /\ batch' = Cleared(batch)
                  /\ pc' = NextPosition
                  /\ idx' = idx + 1
                  /\ UNCHANGED ret
    /\ UNCHANGED << stockdatas, batch_size, target_date, symbols, result,
                    invoked, last_acc, fnVars, first_run,
                    insVars, runVars >>

\* Line 250 when the batch is not full: on to the next symbol.
NoFlush ==
    /\ pc = "check"
    /\ ~BatchFull(batch, batch_size)
    /\ pc' = NextPosition
    /\ idx' = idx + 1
    /\ UNCHANGED << stockdatas, stockindicators, batch_size, target_date,
                    symbols, result, batch, total_written, ret, invoked,
                    flushes, last_acc, fnVars, first_run,
                    insVars, runVars >>

\* Lines 256-261: the remainder is written (batch is not cleared) and
\* total_written returned.
FlushRemainder ==
    /\ pc = "remainder"
    /\ batch /= << >>
    /\ \E o \in Outcomes :
          /\ flushes' = Append(flushes,
                [data |-> batch, outcome |-> o, inloop |-> FALSE,
                 written |-> batch_insert_indicators(stockindicators,
                                                     batch, o)])
          /\ stockindicators' = TableAfterInsert(stockindicators, batch, o)
          /\ IF o = "raise"
             THEN /\ pc' = "aborted"
                  /\ ret' = 0
                  /\ UNCHANGED total_written
             ELSE /\ total_written' = total_written
                        + batch_insert_indicators(stockindicators, batch, o)
                  /\ pc' = "done"
                  /\ ret' = total_written'
    /\ UNCHANGED << stockdatas, batch_size, target_date, symbols, idx,
                    result, batch, invoked, last_acc, fnVars, first_run,
                    insVars, runVars >>

\* Lines 256-261 with an empty batch: total_written is returned.
ReturnTotal ==
    /\ pc = "remainder"
    /\ batch = << >>
    /\ pc' = "done"
    /\ ret' = total_written
    /\ UNCHANGED << stockdatas, stockindicators, batch_size, target_date,
                    symbols, idx, result, batch, total_written, invoked,
                    flushes, last_acc, fnVars, first_run,
                    insVars, runVars >>

Next ==
    \/ ResolveDate
    \/ ResolveSymbols
    \/ Calculate
    \/ FlushFull
    \/ NoFlush
    \/ FlushRemainder
    \/ ReturnTotal

Spec == Init /\ [][Next]_vars

\* Specification SpecLive: a run of process_all_symbols that keeps going.
\* The call is one sequential thread and every call of the database layer
\* returns or raises, so a step that can be taken is taken.
SpecLive == Init /\ [][Next]_vars /\ WF_vars(Next)

---------------------------------------------------------------------------
(* Specification SpecRerun: process_all_symbols runs twice against a price   *)
(* store that does not change, every call of the database layer succeeding. *)

\* No call of the database layer has failed in the run so far: no exception
\* reached the handler of line 263, every history request and every upsert
\* succeeded, and the date and the symbols are those of the store.
FaultFree ==
    /\ pc /= "aborted"
    /\ pc = "nodate" => get_latest_date(stockdatas, "ok") = None
    /\ pc = "nosymbols" => get_all_symbols(stockdatas, "ok") = << >>
    /\ last_acc = << "ok", "ok" >>
    /\ \A k \in 1..Len(flushes) : flushes[k].outcome = "ok"

\* main.py line 85, a second time: the first run has returned and
\* process_all_symbols is called again with the same batch size.  What the
\* first run returned, submitted and left in the table is kept.
RunAgain ==
    /\ pc \in Terminal
    /\ first_run = NoRun
    /\ first_run' = [ret |-> ret, flushes |-> flushes, invoked |-> invoked,
                     table |-> stockindicators]
    /\ pc' = "start"
    /\ target_date' = None
    /\ symbols' = << >>
    /\ idx' = 0
    /\ result' = NoRecord
    /\ batch' = << >>
    /\ total_written' = 0
    /\ ret' = None
    /\ invoked' = << >>
    /\ flushes' = << >>
    /\ UNCHANGED << stockdatas, stockindicators, batch_size, last_acc,
                    fnVars, insVars, runVars >>

NextRerun ==
    \/ ResolveDate /\ FaultFree'
    \/ ResolveSymbols /\ FaultFree'
    \/ Calculate /\ FaultFree'
    \/ FlushFull /\ FaultFree'
    \/ NoFlush /\ FaultFree'
    \/ FlushRemainder /\ FaultFree'
    \/ ReturnTotal /\ FaultFree'
    \/ RunAgain

SpecRerun == Init /\ [][NextRerun]_vars

---------------------------------------------------------------------------
(* Properties of calculate_for_symbol, checked under SpecCalc *)

\* The symbol of the call, and the rows its primary history request
\* (limit 250) returned.
CalcSymbol == invoked[Len(invoked)].symbol

PrimaryRows == get_price_history(stockdatas[CalcSymbol], 250, last_acc[1])

CalcReturned == pc = "returned" /\ last_acc[1] /= "raise"

\* The number of rows whose column f is neither NULL nor zero.
Present(rows, f) ==
    Cardinality({i \in 1..Len(rows) : rows[i][f] /= None /\ rows[i][f] /= 0})

\* C1: when the History Accessor returns fewer than 200 bars for the primary
\* series, calculate_for_symbol returns no record and no exception is raised
\* in it.
C1_FewerThan200NoRecord ==
    (CalcReturned /\ Len(PrimaryRows) < 200)
        => /\ result = NoRecord
           /\ ~CalcRaised(stockdatas[CalcSymbol], last_acc[1], last_acc[2])

\* C1 witness: a symbol with exactly 199 stored bars, all columns present,
\* whose request succeeded, got no record.
C1_Witness199 ==
    /\ CalcReturned
    /\ last_acc[1] = "ok"
    /\ stockdatas[CalcSymbol].n = 199
    /\ stockdatas[CalcSymbol].kind = "full"
    /\ Len(PrimaryRows) = 199
    /\ result = NoRecord

---------------------------------------------------------------------------
(* Specification SpecFn: one call of a metric of the library on a series of  *)
(* two-decimal prices, most recent first.                                    *)

\* The series of length n whose first k prices are a and whose others are b.
TwoValued(n, k, a, b) == [i \in 1..n |-> IF i <= k THEN a ELSE b]

\* Prices in cents around a round amount, and zero.
FnPrices == {0, 999, 1000, 1001}

\* Every series of 4 to 6 prices, and for each window w the two-valued
\* series of w - 1, w and w + 1 prices (their sums take every remainder
\* modulo w, ties included).
FnSeries(w) ==
    (IF w = 5
     THEN UNION {[1..n -> FnPrices] : n \in 4..6}
     ELSE {})
    \cup {TwoValued(n, k, p[1], p[2]) :
             n \in {w - 1, w, w + 1}, k \in 0..w,
             p \in {<< 1001, 1000 >>, << 1000, 1001 >>, << 0, 3 >>}}

\* The (recent, window) pairs of calculate_for_symbol, and small ones with
\* recent below, equal to and above window.
RatioArgs ==
    {<< 1, 30 >>, << 2, 60 >>, << 3, 90 >>,
     << 1, 2 >>, << 3, 3 >>, << 4, 2 >>}

\* Volume series for (recent, window): every series of up to 4 volumes for
\* the small pairs, and two-valued series one short of, equal to and one
\* beyond max(recent, window), all-zero windows included.
VolumeSeries(r, w) ==
    (IF w <= 3
     THEN UNION {[1..n -> {0, 1, 3}] : n \in 0..4}
     ELSE {})
    \cup {TwoValued(n, k, p[1], p[2]) :
             n \in {Max(r, w) - 1, Max(r, w), Max(r, w) + 1},
             k \in 0..4,
             p \in {<< 0, 0 >>, << 0, 7 >>, << 7, 0 >>, << 110, 100 >>}}

\* Rows for _calculate_highs(target): bars on some of the days at, just
\* inside and just outside the two cutoffs, date descending, each with a
\* NULL close or one of two prices (so that maxima tie).
HighsOffsets == << 0, 182, 183, 365, 366 >>

HighsRows(target) ==
    UNION {
        {[i \in 1..Len(days) |->
             [date   |-> target - HighsOffsets[days[i]],
              open   |-> 500,
              high   |-> 800,
              low    |-> 400,
              close  |-> c[days[i]],
              volume |-> 100]] :
            c \in [1..Len(HighsOffsets) -> {None, 500, 700}]} :
        days \in {SortedSeq(D) : D \in SUBSET (1..Len(HighsOffsets))}}

\* The numbers of bars _atr14 is tried with: too few, just enough, and up
\* to four smoothing steps.
AtrLengths == {13, 14, 15, 16, 17, 19}

\* Bars for _atr14, most recent first, as << highs, lows, closes >> in
\* cents: a band around 5.00 with one bar of a wide range and closes that
\* leave gaps to the next bar; the lows may be a shorter list.
AtrBars ==
    {<< [i \in 1..n |-> 500 + a + (IF i = k THEN 300 ELSE 0)],
        [i \in 1..(n - short) |-> 500 - b],
        [i \in 1..n |-> 500 + (IF i % 2 = 0 THEN g ELSE 0)] >> :
        n \in AtrLengths, a \in {0, 10}, b \in {0, 5}, k \in {0, 1, 2, 16},
        g \in {-20, 0, 35}, short \in {0, 1}}

InitFn ==
    /\ stockdatas = [s \in Symbols |-> NoBars]
    /\ stockindicators = {}
    /\ batch_size = 1
    /\ pc = "idle"
    /\ target_date = None
    /\ symbols = << >>
    /\ idx = 0
    /\ result = NoRecord
    /\ batch = << >>
    /\ total_written = 0
    /\ ret = None
    /\ invoked = << >>
    /\ flushes = << >>
    /\ last_acc = << "ok", "ok" >>
    /\ \/ /\ fn_window \in SmaWindows
          /\ fn_values \in FnSeries(fn_window)
          /\ fn_recent = 0
          /\ fn_lows = << >>
          /\ fn_closes = << >>
          /\ fn_target = None
       \/ /\ \E a \in RatioArgs : fn_recent = a[1] /\ fn_window = a[2]
          /\ fn_values \in VolumeSeries(fn_recent, fn_window)
          /\ fn_lows = << >>
          /\ fn_closes = << >>
          /\ fn_target = None
       \/ /\ fn_target = Today
          /\ fn_values \in HighsRows(fn_target)
          /\ fn_window = 0
          /\ fn_recent = 0
          /\ fn_lows = << >>
          /\ fn_closes = << >>
       \/ /\ \E bars \in AtrBars :
                /\ fn_values = bars[1]
                /\ fn_lows = bars[2]
                /\ fn_closes = bars[3]
          /\ fn_window = 14
          /\ fn_recent = 0
          /\ fn_target = None
    /\ fn_out = None
    /\ first_run = NoRun
    /\ InsIdle
    /\ RunIdle

\* _sma(fn_values, fn_window) is called.
CallSma ==
    /\ pc = "idle"
    /\ fn_window \in SmaWindows
    /\ fn_out' = _sma(fn_values, fn_window)
    /\ pc' = "sma"
    /\ UNCHANGED << stockdatas, driverVars_but_pc, fnInputs, first_run,
                    insVars, runVars >>

\* _sma_prev(fn_values, fn_window) is called.
CallSmaPrev ==
    /\ pc = "idle"
    /\ fn_window \in SmaWindows
    /\ fn_out' = _sma_prev(fn_values, fn_window)
    /\ pc' = "sma_prev"
    /\ UNCHANGED << stockdatas, driverVars_but_pc, fnInputs, first_run,
                    insVars, runVars >>

\* _volume_ratio(fn_values, fn_recent, fn_window) is called.
CallVolumeRatio ==
    /\ pc = "idle"
    /\ << fn_recent, fn_window >> \in RatioArgs
    /\ ~(/\ Len(fn_values) >= Max(fn_recent, fn_window)
         /\ SumFirst(fn_values, fn_window) > 0
         /\ Midway(SumFirst(fn_values, fn_recent) * fn_window,
                   SumFirst(fn_values, fn_window)))
    /\ fn_out' = _volume_ratio(fn_values, fn_recent, fn_window)
    /\ pc' = "volume_ratio"
    /\ UNCHANGED << stockdatas, driverVars_but_pc, fnInputs, first_run,
                    insVars, runVars >>

\* _calculate_highs(symbol, fn_target) is called, get_price_history
\* returning fn_values.
CallCalculateHighs ==
    /\ pc = "idle"
    /\ fn_target /= None
    /\ fn_out' = _calculate_highs(fn_values, fn_target)
    /\ pc' = "highs"
    /\ UNCHANGED << stockdatas, driverVars_but_pc, fnInputs, first_run,
                    insVars, runVars >>

\* _atr14(fn_values, fn_lows, fn_closes) is called.
CallAtr14 ==
    /\ pc = "idle"
    /\ fn_window = 14
    /\ fn_out' = _atr14(fn_values, fn_lows, fn_closes)
    /\ pc' = "atr14"
    /\ UNCHANGED << stockdatas, driverVars_but_pc, fnInputs, first_run,
                    insVars, runVars >>

NextFn ==
    \/ CallSma
    \/ CallSmaPrev
    \/ CallVolumeRatio
    \/ CallCalculateHighs
    \/ CallAtr14

SpecFn == InitFn /\ [][NextFn]_vars

\* C10: for a window of {5,10,20,50,100,200} and a series of two-decimal
\* prices, _sma is absent when the series is shorter than the window, and
\* otherwise the mean of the first w prices rounded half-up to the cent:
\* the cent amount r with r - 1/2 <= total/w < r + 1/2.
C10_SmaIsRoundedMean ==
    pc = "sma" =>
        IF Len(fn_values) < fn_window THEN fn_out = None
        ELSE LET total == SumFirst(fn_values, fn_window)
             IN /\ fn_out /= None
                /\ 2 * fn_out * fn_window - fn_window <= 2 * total
                /\ 2 * total < 2 * fn_out * fn_window + fn_window

\* C10 witness: the 200-day average of a series whose mean lies exactly
\* half a cent above a cent amount was rounded up.
C10_WitnessTie ==
    /\ pc = "sma"
    /\ fn_window = 200
    /\ Len(fn_values) >= 200
    /\ 2 * SumFirst(fn_values, 200) = 2 * 1000 * 200 + 200
    /\ fn_out = 1001

---------------------------------------------------------------------------
(* Properties of process_all_symbols, checked under Spec *)

\* The symbols with a bar on a date.
SymbolsOn(store, date) ==
    {s \in DOMAIN store : store[s].n > 0 /\ store[s].last = date}

\* The symbols calculate_for_symbol was called for, and the records it
\* returned, so far in the run.
InvokedSymbols == {invoked[k].symbol : k \in 1..Len(invoked)}

ReturnedRecords == {invoked[k].result : k \in 1..Len(invoked)} \ {NoRecord}

\* The places (flush, position) at which a record was submitted to the sink.
Submissions(r) ==
    {p \in (1..Len(flushes)) \X (1..MaxSymbols) :
        /\ p[2] <= Len(flushes[p[1]].data)
        /\ flushes[p[1]].data[p[2]] = r}

\* The records of all flushes so far.
SubmittedRecords ==
    UNION {{flushes[i].data[j] : j \in 1..Len(flushes[i].data)} :
              i \in 1..Len(flushes)}

\* Whether the second history request (that of _calculate_highs) is made.
HighsRequested(d, o250) ==
    \E rows \in {get_price_history(d, 250, o250)} :
        /\ Len(rows) >= 200
        /\ \A f \in {"close", "high", "low", "volume"} : Present(rows, f) > 0

\* Whether a history request made for the symbol failed: with a mysql Error
\* or with another exception (a malformed row).
CalcFailed(d, o250, o420) ==
    \/ o250 /= "ok"
    \/ o420 /= "ok" /\ HighsRequested(d, o250)

\* C3 as claimed: when the calculation of a symbol fails (a malformed row, or
\* the History Accessor failing for that symbol), that symbol contributes no
\* record: none is returned and none of it enters the batch.
C3_AsClaimed ==
    (pc = "check"
     /\ CalcFailed(stockdatas[CalcSymbol], last_acc[1], last_acc[2]))
        => /\ result = NoRecord
           /\ \A j \in 1..Len(batch) : batch[j].symbol /= CalcSymbol

C5_EachRecordSubmittedOnce ==
    /\ SubmittedRecords \subseteq ReturnedRecords
    /\ \A r \in ReturnedRecords : Cardinality(Submissions(r)) <= 1
    /\ pc = "done"
          => /\ \A r \in ReturnedRecords : Cardinality(Submissions(r)) = 1
             /\ \A j \in 1..Len(batch) : batch[j] \in SubmittedRecords

\* C5 witness: a finished run in which three records went out in two
\* flushes, the second one the remainder.
C5_WitnessTwoFlushes ==
    /\ pc = "done"
    /\ Cardinality(ReturnedRecords) = 3
    /\ Len(flushes) = 2
    /\ ~flushes[2].inloop

\* The rows the sink wrote (inserted or updated) in the run: those of the
\* flushes whose statement succeeded.
RECURSIVE RowsWrittenUpTo(_)
RowsWrittenUpTo(k) ==
    IF k = 0 THEN 0
    ELSE RowsWrittenUpTo(k - 1)
         + (IF flushes[k].outcome = "ok" THEN Len(flushes[k].data) ELSE 0)

\* C6 as claimed: the value process_all_symbols returns is the number of
\* indicator rows written to the sink in the run, whatever failed.
C6_AsClaimed ==
    pc \in Terminal => ret = RowsWrittenUpTo(Len(flushes))

\* C7 as claimed: after a flush on which the sink failed, the records of
\* that flush are in no later flush and not in the batch, and the run goes
\* on: at its end the calculator was called for every symbol of the
\* universe and every record it returned was submitted.
C7_AsClaimed ==
    \A i \in 1..Len(flushes) :
        flushes[i].outcome /= "ok"
            => /\ \A j \in 1..Len(flushes[i].data) :
                     /\ Cardinality(Submissions(flushes[i].data[j])) = 1
                     /\ \A k \in 1..Len(batch) :
                            batch[k] /= flushes[i].data[j]
               /\ pc \in Terminal
                     => /\ Len(invoked) = Len(symbols)
                        /\ ReturnedRecords \subseteq SubmittedRecords

\* C8: once get_latest_date has returned no date (as it does for an empty
\* store), or get_all_symbols no symbol, the run has ended or ends with the
\* value 0, calculate_for_symbol was called for no symbol and the sink was
\* never called.
C8_NothingToProcessReturnsZero ==
    /\ (pc /= "start" /\ target_date = None)
          => /\ pc \in {"nodate", "aborted"}
             /\ ret = 0
             /\ invoked = << >>
             /\ flushes = << >>
    /\ (pc \notin {"start", "symbols"} /\ symbols = << >>)
          => /\ pc \in {"nodate", "nosymbols", "aborted"}
             /\ ret = 0
             /\ invoked = << >>
             /\ flushes = << >>
    /\ (pc /= "start" /\ MaxDate(stockdatas) = None) => pc = "nodate"
                                                        \/ pc = "aborted"

\* C8 witness: a run over an empty store returned 0 at the date check.
C8_WitnessEmptyStore ==
    /\ pc = "nodate"
    /\ \A s \in Symbols : stockdatas[s].n = 0
    /\ ret = 0

\* C9 as claimed: in every run with a resolved target date the symbols the
\* calculator is called for are exactly those with a bar on that date, and
\* every submitted record carries that date.
C9_AsClaimed ==
    (pc \in Terminal /\ target_date /= None)
        => /\ InvokedSymbols = SymbolsOn(stockdatas, target_date)
           /\ \A r \in SubmittedRecords : r.date = target_date

\* C9 amended: the calculator is called only for symbols with a bar on the
\* resolved target date, for each at most once, and every submitted record
\* carries that date; in a run that completes the symbol loop it is called
\* for exactly the symbols with a bar on that date; in a run that ends at
\* the symbol query (no symbol returned, as on a mysql Error) it is called
\* for none.
C9_InvokedAreTargetDateSymbols ==
    /\ InvokedSymbols \subseteq SymbolsOn(stockdatas, target_date)
    /\ Cardinality(InvokedSymbols) = Len(invoked)
    /\ \A r \in SubmittedRecords : r.date = target_date
    /\ pc = "done" => InvokedSymbols = SymbolsOn(stockdatas, target_date)
    /\ pc = "nosymbols" => invoked = << >>

\* C9 witness: a finished run that submitted a record and left out a symbol
\* whose last bar is older than the target date.
C9_WitnessOlderSymbolSkipped ==
    /\ pc = "done"
    /\ flushes /= << >>
    /\ \E s \in Symbols : /\ stockdatas[s].n >= 200
                          /\ stockdatas[s].last < target_date
                          /\ s \notin InvokedSymbols

\* C11: _sma_prev(S, w) equals _sma(S[1:], w), and it is absent exactly
\* when S has fewer than w + 1 values.
C11_SmaPrevIsSmaOfTail ==
    pc = "sma_prev" =>
        /\ fn_out = _sma(Drop(fn_values, 1), fn_window)
        /\ (fn_out = None) <=> (Len(fn_values) < fn_window + 1)

\* C11 witness: a series of w + 1 prices whose most recent price differs
\* from the others, so that the two windows have different averages.
C11_WitnessOffsetMatters ==
    /\ pc = "sma_prev"
    /\ Len(fn_values) = fn_window + 1
    /\ fn_out /= None
    /\ fn_out /= _sma(fn_values, fn_window)

\* C12: _volume_ratio returns absent when fewer than max(recent, window)
\* volumes exist or when the mean of the window most recent volumes is
\* zero; otherwise it returns a finite value: the hundredth within half a
\* hundredth of sum(recent) / mean(window).
C12_VolumeRatioAbsentOrFinite ==
    pc = "volume_ratio" =>
        IF Len(fn_values) < Max(fn_recent, fn_window) THEN fn_out = None
        ELSE LET total == SumFirst(fn_values, fn_window)
                 recent_sum == SumFirst(fn_values, fn_recent)
             IN IF total = 0 THEN fn_out = None
                ELSE /\ fn_out \in 0..(100 * recent_sum * fn_window)
                     /\ 2 * fn_out * total - total
                           <= 200 * recent_sum * fn_window
                     /\ 200 * recent_sum * fn_window
                           <= 2 * fn_out * total + total

\* C12 witness: enough volumes, all of the window zero: no value.
C12_WitnessZeroMean ==
    /\ pc = "volume_ratio"
    /\ Len(fn_values) >= Max(fn_recent, fn_window)
    /\ fn_window = 30
    /\ SumFirst(fn_values, fn_window) = 0
    /\ fn_out = None

\* The volumes of the rows of a history request, zero included.
RowVolumes(rows) == [i \in 1..Len(rows) |-> rows[i].volume]

\* Whether a ratio field v is sum(volumes[:r]) / mean(volumes[:w]) of the
\* volumes rounded to the hundredth (within half a hundredth of it).
IsRatioOf(v, volumes, r, w) ==
    \E rs \in {SumFirst(volumes, r)}, total \in {SumFirst(volumes, w)} :
        total > 0 =>
            /\ v /= None
            /\ 2 * v * total - total <= 200 * rs * w
            /\ 200 * rs * w <= 2 * v * total + total

\* C13 as claimed: in every record the fields a130, a260 and a390 are the
\* volume of the 1, 2, 3 most recent bars divided by the mean volume of the
\* 30, 60, 90 most recent bars, rounded to two decimals, whatever volumes
\* (zero included) the bars carry.
C13_AsClaimed ==
    (CalcReturned /\ result /= NoRecord)
        => /\ IsRatioOf(result.a130, RowVolumes(PrimaryRows), 1, 30)
           /\ IsRatioOf(result.a260, RowVolumes(PrimaryRows), 2, 60)
           /\ IsRatioOf(result.a390, RowVolumes(PrimaryRows), 3, 90)

\* The positions of the rows with a close on or after target - L days.
RowsSince(rows, target, L) ==
    {i \in 1..Len(rows) : rows[i].date >= target - L /\ rows[i].close /= None}

\* The maximum close of those rows and the earliest date it is attained on;
\* << None, None >> when there is no such row.
EarliestHigh(rows, target, L) ==
    IF RowsSince(rows, target, L) = {} THEN << None, None >>
    ELSE LET top == CHOOSE i \in RowsSince(rows, target, L) :
                        \A j \in RowsSince(rows, target, L) :
                            \/ rows[j].close < rows[i].close
                            \/ /\ rows[j].close = rows[i].close
                               /\ rows[j].date >= rows[i].date
         IN << rows[top].close, rows[top].date >>

\* C14: for the lookbacks of 365 and 182 days _calculate_highs returns the
\* maximum close of the retrieved bars dated on or after target_date minus
\* the lookback and the earliest date that close is attained on, and
\* absent values when no such bar has a close.
C14_HighsAreEarliestMaximum ==
    pc = "highs" =>
        fn_out = << EarliestHigh(fn_values, fn_target, 365)[1],
                    EarliestHigh(fn_values, fn_target, 365)[2],
                    EarliestHigh(fn_values, fn_target, 182)[1],
                    EarliestHigh(fn_values, fn_target, 182)[2] >>

\* C14 witness: the 52-week maximum is attained twice, on the cutoff day
\* and on the target day, and the cutoff day is returned; the 6-month
\* maximum is attained on the target day only.
C14_WitnessTieEarlierDate ==
    /\ pc = "highs"
    /\ Len(fn_values) = 5
    /\ fn_values[1].close = 700
    /\ fn_values[4].close = 700
    /\ fn_values[2].close = 500
    /\ fn_out = << 700, fn_target - 365, 700, fn_target >>

\* One column of the rows of a history request, bar by bar, nothing dropped.
RowColumn(rows, f) == [i \in 1..Len(rows) |-> rows[i][f]]

\* C15 as claimed: in every record ADR20 is absent or the sum of high - low
\* of the 20 most recent bars, each difference within one bar, divided by
\* 20, times 100, rounded half-up to the cent; and it is absent whenever
\* one of those 20 bars has a NULL high or a NULL low.
C15_AsClaimed ==
    (CalcReturned /\ result /= NoRecord)
        => IF \E i \in 1..20 : \/ PrimaryRows[i].high = None
                               \/ PrimaryRows[i].low = None
           THEN result.adr20 = None
           ELSE \/ result.adr20 = None
                \/ result.adr20 =
                      QuantizeHalfUp(
                          100 * RangeSum(RowColumn(PrimaryRows, "high"),
                                         RowColumn(PrimaryRows, "low"),
                                         20).total,
                          20)

---------------------------------------------------------------------------
(* Properties of _atr14, checked under SpecFn *)

\* The True Range of the t-th bar after the oldest of n bars given most
\* recent first: its own high and low and the close of the bar before it.
RangeOfBar(highs, lows, closes, n, t) ==
    Max3(highs[n - t] - lows[n - t],
         Abs(highs[n - t] - closes[n - t + 1]),
         Abs(lows[n - t] - closes[n - t + 1]))

\* Wilder's average after the j-th True Range, j >= 14, as the numerator of
\* a fraction of denominator 14^(j - 13): the mean of the 14 oldest True
\* Ranges, then (13 * atr + TR) / 14 for each later one.
RECURSIVE WilderNumerator(_, _, _, _, _)
WilderNumerator(highs, lows, closes, n, j) ==
    IF j = 14
    THEN SumFirst([t \in 1..14 |-> RangeOfBar(highs, lows, closes, n, t)], 14)
    ELSE 13 * WilderNumerator(highs, lows, closes, n, j - 1)
         + RangeOfBar(highs, lows, closes, n, j) * 14 ^ (j - 14)

\* C18: _atr14 is absent for fewer than 15 bars.  For n >= 15 bars it is
\* Wilder's average of the n - 1 True Ranges taken oldest first -- the mean
\* of the 14 oldest, then atr = (13 * atr + TR) / 14 for each later one --
\* rounded to the cent, that is, within half a cent of the exact value; for
\* exactly 15 bars that value is the mean of the 14 True Ranges.
C18_AtrIsWilderAverage ==
    pc = "atr14" =>
        LET n == Min(Len(fn_values), Min(Len(fn_lows), Len(fn_closes)))
            num == WilderNumerator(fn_values, fn_lows, fn_closes, n, n - 1)
            den == 14 ^ (n - 14)
        IN /\ n < 15 => fn_out = None
           /\ (n >= 15 /\ Len(fn_values) = n /\ Len(fn_lows) = n
                       /\ Len(fn_closes) = n) =>
                 /\ fn_out /= None
                 /\ 2 * Abs(fn_out * den - num) <= den
           /\ (n = 15 /\ Len(fn_values) = n /\ Len(fn_lows) = n
                      /\ Len(fn_closes) = n) =>
                 2 * Abs(14 * fn_out
                         - SumFirst([t \in 1..14 |->
                                        RangeOfBar(fn_values, fn_lows,
                                                   fn_closes, n, t)], 14))
                    <= 14

\* C18 witness: 17 bars were averaged and the two smoothing steps moved the
\* result away from the mean of the 14 oldest True Ranges.
C18_WitnessSmoothed ==
    /\ pc = "atr14"
    /\ Len(fn_values) = 17
    /\ Len(fn_lows) = 17
    /\ Len(fn_closes) = 17
    /\ fn_out /= None
    /\ 2 * Abs(14 * fn_out
               - SumFirst([t \in 1..14 |->
                              RangeOfBar(fn_values, fn_lows, fn_closes,
                                         17, t)], 14)) > 14

---------------------------------------------------------------------------
(* Properties of the ATR14 of a record, checked under SpecCalc *)

\* The positions in rows (1 the most recent bar) of the entries that
\* Column(rows, f) keeps, in the order it keeps them.
ColumnRows(rows, f) ==
    TheOne({SelectSeq([i \in 1..Len(r) |-> i], LAMBDA i : Truthy(r[i][f])) :
               r \in {rows}})

\* The bars from which the i-th True Range of _atr14 (i = 1 the oldest)
\* takes H[i], L[i] and C[i - 1], the highs, lows and closes it is called
\* with being those of the bars hr, lr and cr:
\* << bar of the high, bar of the low, bar of the close >>.
RangeBars(hr, lr, cr, i) ==
    << hr[Len(hr) - i], lr[Len(lr) - i], cr[Len(cr) - i + 1] >>

\* C19 as claimed: in every record with an ATR14, each True Range behind it
\* takes its high and its low from one bar and its previous close from the
\* bar immediately before that one (the next older bar of the symbol).
C19_AsClaimed ==
    (CalcReturned /\ result /= NoRecord /\ result.atr14 /= None)
        => \E hr \in {ColumnRows(PrimaryRows, "high")},
              lr \in {ColumnRows(PrimaryRows, "low")},
              cr \in {ColumnRows(PrimaryRows, "close")} :
              \A i \in 1..(Min(Len(hr), Min(Len(lr), Len(cr))) - 1) :
                 \E b \in {RangeBars(hr, lr, cr, i)} :
                    b[1] = b[2] /\ b[3] = b[1] + 1

---------------------------------------------------------------------------
(* Properties of the record of a flat history, checked under SpecCalc *)

\* The history returned for the symbol is 200 identical bars: close 100.00,
\* high equal to low, the same non-zero volume in every bar.
FlatHistory ==
    \E rows \in {PrimaryRows} :
       /\ Len(rows) = 200
       /\ \A i \in 1..200 :
             /\ rows[i].close = 10000
             /\ rows[i].high /= None
             /\ rows[i].high = rows[i].low
             /\ rows[i].volume = rows[1].volume
             /\ rows[i].volume > 0

\* C20 as claimed: the record of a flat history has SMA5 = SMA200 = 100.00,
\* ADR20 = 0.00 and a130 = a260 = a390 = 1.00.
C20_AsClaimed ==
    (CalcReturned /\ FlatHistory /\ result /= NoRecord)
        => /\ result.sma5 = 10000
           /\ result.sma200 = 10000
           /\ result.adr20 = 0
           /\ result.a130 = 100
           /\ result.a260 = 100
           /\ result.a390 = 100

\* C20, amended: the record of a flat history has SMA5 = SMA200 = 100.00,
\* ADR20 = 0.00, and the volume ratios a130 = 1.00, a260 = 2.00 and
\* a390 = 3.00: the sum of r equal volumes over their mean is r.
C20_FlatHistoryRecord ==
    (CalcReturned /\ FlatHistory /\ result /= NoRecord)
        => /\ result.sma5 = 10000
           /\ result.sma200 = 10000
           /\ result.adr20 = 0
           /\ result.a130 = 100
           /\ result.a260 = 200
           /\ result.a390 = 300

\* C20 witness: a record was returned for a flat history of 200 bars.
C20_WitnessFlatRecord ==
    /\ CalcReturned
    /\ FlatHistory
    /\ result /= NoRecord
    /\ result.sma200 = 10000
    /\ result.a390 = 300

---------------------------------------------------------------------------
(* Properties of repeated calculate_for_symbol calls, checked under SpecAgain *)

---------------------------------------------------------------------------
(* Properties of two runs of process_all_symbols, checked under SpecRerun *)

\* The batches a run submitted to the sink, in order.
SubmittedBatches(fl) == [k \in 1..Len(fl) |-> fl[k].data]

\* The second run has returned.
SecondRunDone == pc \in Terminal /\ first_run /= NoRun

\* Both runs submitted the same records, and the table holds one row per
\* (symbol, date), the rows it held after the first run.
SameRecordsAndRows ==
    /\ SubmittedBatches(flushes) = SubmittedBatches(first_run.flushes)
    /\ stockindicators = first_run.table
    /\ \A r1 \in stockindicators, r2 \in stockindicators :
          (r1.symbol = r2.symbol /\ r1.date = r2.date) => r1 = r2

\* C17 as claimed: when process_all_symbols has run twice against unchanged
\* price history for the same date, both runs submitted identical records,
\* the table holds exactly one row per (symbol, date) with the values it
\* had after the first run, and the second run returned the same row count
\* as the first.
C17_AsClaimed ==
    SecondRunDone => (SameRecordsAndRows /\ ret = first_run.ret)

---------------------------------------------------------------------------
(* Properties of the previous-day averages of a record, under SpecCalc *)

\* The fields of a record that hold the current and the previous-day
\* average of window w.
SmaField(w) ==
    IF w = 5 THEN "sma5" ELSE IF w = 10 THEN "sma10"
    ELSE IF w = 20 THEN "sma20" ELSE IF w = 50 THEN "sma50"
    ELSE IF w = 100 THEN "sma100" ELSE "sma200"

SmaPrevField(w) ==
    IF w = 5 THEN "sma5s1" ELSE IF w = 10 THEN "sma10s1"
    ELSE IF w = 20 THEN "sma20s1" ELSE IF w = 50 THEN "sma50s1"
    ELSE IF w = 100 THEN "sma100s1" ELSE "sma200s1"

\* The history returned has exactly 200 bars and no NULL or zero field.
Exactly200Complete ==
    \E rows \in {PrimaryRows} :
       /\ Len(rows) = 200
       /\ \A f \in {"open", "high", "low", "close", "volume"} :
             Present(rows, f) = 200

\* C21: for a symbol with exactly 200 bars, all fields non-null, (and no
\* exception in the call) calculate_for_symbol returns a record in which
\* every current SMA, sma200 included, is present, sma200s1 is absent and
\* the previous-day SMAs of the windows 5, 10, 20, 50 and 100 are present;
\* and in every record sma{w}s1 is present exactly when at least w + 1
\* closes exist.
C21_PreviousDaySmaNeedsOneMoreClose ==
    /\ (/\ CalcReturned
        /\ Exactly200Complete
        /\ ~CalcRaised(stockdatas[CalcSymbol], last_acc[1], last_acc[2]))
          => /\ result /= NoRecord
             /\ \A w \in SmaWindows : result[SmaField(w)] /= None
             /\ result.sma200s1 = None
             /\ \A w \in SmaWindows \ {200} : result[SmaPrevField(w)] /= None
    /\ (CalcReturned /\ result /= NoRecord)
          => \E nc \in {Present(PrimaryRows, "close")} :
                \A w \in SmaWindows :
                   (result[SmaPrevField(w)] /= None) <=> (nc >= w + 1)

\* C21 witness: a record was returned for exactly 200 complete bars, with
\* sma200 present and sma200s1 absent.
C21_WitnessExactly200 ==
    /\ CalcReturned
    /\ Exactly200Complete
    /\ result /= NoRecord
    /\ result.sma200 /= None
    /\ result.sma200s1 = None
    /\ result.sma100s1 /= None

---------------------------------------------------------------------------
(* The two highs of _calculate_highs compared, checked under SpecFn *)

\* C22: in every result << ftwh, ftwhdate, tswh, tswhdate >> of
\* _calculate_highs, if the 6-month high is present then the 52-week high
\* is present and not lower; when the two are equal, ftwhdate is not later
\* than tswhdate.
C22_SixMonthHighWithinYearHigh ==
    (pc = "highs" /\ fn_out[3] /= None)
        => /\ fn_out[1] /= None
           /\ fn_out[3] <= fn_out[1]
           /\ fn_out[3] = fn_out[1] => fn_out[2] <= fn_out[4]

\* C22 witness: the maximum close is reached both before and inside the
\* last 182 days, so the highs are equal and the 52-week date is earlier.
C22_WitnessEqualHighsEarlierDate ==
    /\ pc = "highs"
    /\ fn_out[3] /= None
    /\ fn_out[1] = fn_out[3]
    /\ fn_out[2] < fn_out[4]

---------------------------------------------------------------------------
(* Termination of process_all_symbols, checked under SpecLive *)

\* C23: however the History Accessor and the sink behave, exceptions after
\* earlier flushes included, process_all_symbols reaches one of its return
\* statements -- no exception leaves it -- and what it returns is a
\* non-negative integer.
C23_ReturnsNonNegative ==
    /\ <>(pc \in Terminal)
    /\ [](pc \in Terminal => (ret /= None /\ ret >= 0))

\* C23 witness: a first batch was written, the next call of the sink raised
\* an exception, and process_all_symbols returned 0.
C23_WitnessRaiseAfterFlush ==
    /\ pc = "aborted"
    /\ ret = 0
    /\ Len(flushes) >= 2
    /\ flushes[1].outcome = "ok"
    /\ flushes[1].written > 0
    /\ flushes[Len(flushes)].outcome = "raise"

---------------------------------------------------------------------------
(* Specification SpecInsert: one call of                                    *)
(* FundamentalDataFetcher.insert_fundamental_data (fetch_fundamentals.py).  *)

\* The engine is not running: the variables of the indicator engine at rest.
EngineIdle ==
    /\ stockdatas = [s \in Symbols |-> NoBars]
    /\ stockindicators = {}
    /\ batch_size = 1
    /\ pc = "idle"
    /\ target_date = None
    /\ symbols = << >>
    /\ idx = 0
    /\ result = NoRecord
    /\ batch = << >>
    /\ total_written = 0
    /\ ret = None
    /\ invoked = << >>
    /\ flushes = << >>
    /\ last_acc = << "ok", "ok" >>
    /\ fn_values = << >>
    /\ fn_window = 0
    /\ fn_recent = 0
    /\ fn_lows = << >>
    /\ fn_closes = << >>
    /\ fn_target = None
    /\ fn_out = None
    /\ first_run = NoRun

engineVars == << stockdatas, driverVars, fnVars, first_run >>

\* The symbols and market capitalisations of the profiles of the model.
FundSymbols == 1..2

MarketCaps == {10, 20}

\* A retry loop with one more attempt.
max_retries_Four == 3 + 1

\* Line 184: max_retries = 3.
max_retries == 3

\* How one pass of the try block of lines 186-198 may end: the statement is
\* executed and the cursor closed ("ok"), cursor(), execute() or close()
\* raises a mysql Error ("error"), or another exception leaves the block
\* ("raise").
InsertOutcomes == {"ok", "error", "raise"}

\* INSERT ... ON DUPLICATE KEY UPDATE of lines 168-182 on the table.
UpsertFundamental(table, data) ==
    [table EXCEPT ![data.symbol] = data.marketcap]

\* The table and the profile of a call; the connection was opened by the
\* constructor (line 30), autocommit on (line 35).
InitInsert ==
    /\ EngineIdle
    /\ RunIdle
    /\ stock_fundamentals \in [FundSymbols -> MarketCaps \cup {None}]
    /\ fundamental_data \in [symbol : FundSymbols, marketcap : MarketCaps]
    /\ attempt = 0
    /\ ins_pc = "try"
    /\ ins_ret = "none"
    /\ ins_log = << >>

\* Lines 186-200 and 205-208: one pass of the loop body.  A statement that
\* raised a mysql Error may have been stored all the same (the Error came
\* from cursor.close(), line 197, or after the server had applied it).
TryInsert ==
    /\ ins_pc = "try"
    /\ attempt < max_retries
    /\ \E o \in InsertOutcomes, stored \in BOOLEAN :
          /\ o = "ok" => stored
          /\ o = "raise" => ~stored
          /\ ins_log' = Append(ins_log, [op |-> "execute", attempt |-> attempt,
                                         outcome |-> o])
          /\ stock_fundamentals' =
                IF stored
                THEN UpsertFundamental(stock_fundamentals, fundamental_data)
                ELSE stock_fundamentals
          /\ IF o = "ok"
             THEN ins_pc' = "returned" /\ ins_ret' = "True"
             ELSE IF o = "raise"
             THEN ins_pc' = "raised" /\ UNCHANGED ins_ret
             ELSE IF attempt < max_retries - 1
             THEN ins_pc' = "reconnect" /\ UNCHANGED ins_ret
             ELSE ins_pc' = "returned" /\ ins_ret' = "False"
    /\ UNCHANGED << engineVars, runVars, fundamental_data, attempt >>

\* Lines 201-205: self.connect() after a failed attempt that was not the
\* last; whatever it raises is swallowed (bare except), and the loop goes to
\* the next attempt.
Reconnect ==
    /\ ins_pc = "reconnect"
    /\ \E o \in {"ok", "error", "raise"} :
          ins_log' = Append(ins_log, [op |-> "connect", attempt |-> attempt,
                                      outcome |-> o])
    /\ attempt' = attempt + 1
    /\ ins_pc' = "try"
    /\ UNCHANGED << engineVars, runVars, stock_fundamentals, fundamental_data,
                    ins_ret >>

NextInsert ==
    \/ TryInsert
    \/ Reconnect

\* The call is sequential code: a step that can be taken is taken.
SpecInsert == InitInsert /\ [][NextInsert]_vars /\ WF_vars(NextInsert)

\* The positions of the execute calls in ins_log.
Executes == {i \in 1..Len(ins_log) : ins_log[i].op = "execute"}

\* The execute calls that ended in a mysql Error.
Failures == {i \in Executes : ins_log[i].outcome = "error"}

\* What holds of the attempts at every point of the call.
InsertContract ==
    /\ Cardinality(Executes) <= 3
    /\ \A i \in Executes :
          ins_log[i].outcome = "ok"
             => i = Len(ins_log) /\ ins_pc = "returned" /\ ins_ret = "True"
    /\ ins_ret = "True"
          => ins_log /= << >> /\ ins_log[Len(ins_log)].outcome = "ok"
                              /\ ins_log[Len(ins_log)].op = "execute"
    /\ \A i \in Failures :
          Cardinality({j \in Executes : j <= i}) <= 2
             => IF i < Len(ins_log) THEN ins_log[i + 1].op = "connect"
                ELSE ins_pc = "reconnect"
    /\ \A i \in 1..Len(ins_log) :
          ins_log[i].op = "connect" => i > 1 /\ (i - 1) \in Failures
    /\ ins_ret = "False"
          => Cardinality(Executes) = 3 /\ Failures = Executes
    /\ (Cardinality(Failures) = 3) => ins_pc = "returned" /\ ins_ret = "False"

\* C24: insert_fundamental_data makes at most 3 insert attempts, returns True
\* at the first attempt that succeeds and makes none after it, attempts a
\* reconnect after each of the first two attempts that fail with a mysql
\* Error, returns False only after the third such failure in a row, and
\* always comes to an end.
C24_AtMostThreeAttempts ==
    /\ <>(ins_pc \in {"returned", "raised"})
    /\ [](ins_pc /= "idle" => InsertContract)

\* C24 witness: two attempts failed, a reconnect was attempted after each
\* (the second one failed too), and the third attempt stored the record and
\* returned True.
C24_WitnessThirdAttemptSucceeds ==
    /\ ins_pc = "returned"
    /\ ins_ret = "True"
    /\ Len(ins_log) = 5
    /\ ins_log[1].outcome = "error"
    /\ ins_log[2].op = "connect"
    /\ ins_log[3].outcome = "error"
    /\ ins_log[4].op = "connect" /\ ins_log[4].outcome /= "ok"
    /\ ins_log[5].op = "execute" /\ ins_log[5].outcome = "ok"
    /\ stock_fundamentals[fundamental_data.symbol] = fundamental_data.marketcap

---------------------------------------------------------------------------
(* Specification SpecRun: one call of StockIndicatorSystem.run (main.py),   *)
(* with process_all_symbols running inside it step by step.                 *)

\* The values of cleanup_mode: the four choices of the command line and the
\* empty string.
CleanupModes == {"", "none", "truncate", "keep-latest", "keep-date"}

\* The values of cleanup_date: None, a string that is not a date, and the
\* dates of yesterday and today written as YYYY-MM-DD.
CleanupDates == {"None", "not-a-date", "yesterday", "today"}

\* Line 74: datetime.strptime(cleanup_date, "%Y-%m-%d").date(); None stands
\* for the ValueError of a string in another format.
ParseDate(str) ==
    IF str = "yesterday" THEN Today - 1
    ELSE IF str = "today" THEN Today
    ELSE None

\* The arguments of run; cleanup_date is read under keep-date alone (line
\* 68) and is None in the other modes.
RunArgs ==
    {a \in [fetch_data : BOOLEAN, calculate_indicators : BOOLEAN,
            cleanup_mode : CleanupModes, cleanup_date : CleanupDates,
            find_hot_stocks : BOOLEAN] :
        a.cleanup_mode /= "keep-date" => a.cleanup_date = "None"}

\* The sets of symbols whose quotes a fetch may store.
QuoteSets == {{}, {1}, Symbols}

\* config.BATCH_SIZE, scaled to the three symbols of the model so that a run
\* meets a full batch.
RunBatchSize == 2

\* An indicator row of symbol s and date d, and one whose volume ratio a130
\* is 2.50.
RowOn(s, d) == [EarlierRow EXCEPT !.symbol = s, !.date = d]

BusyRowOn(s, d) == [RowOn(s, d) EXCEPT !.a130 = 250]

\* Price stores before a run: symbol 1 with a flat history ending the day
\* before; or symbol 1 with 200 bars ending today (the last close 5 % above
\* the one before) and symbol 2 with a flat history ending the day before.
RunStores ==
    { [s \in Symbols |->
          IF s = 1 THEN [n |-> 200, last |-> Today - 1, kind |-> "flat"]
          ELSE NoBars],
      [s \in Symbols |->
          IF s = 1 THEN [n |-> 200, last |-> Today, kind |-> "full"]
          ELSE IF s = 2 THEN [n |-> 200, last |-> Today - 1, kind |-> "flat"]
          ELSE NoBars] }

\* Indicator tables before a run: empty, or the rows of earlier days and of
\* today that earlier runs left.
RunTables ==
    { {},
      {RowOn(1, Today - 2), RowOn(1, Today - 1), RowOn(2, Today - 1)},
      {RowOn(2, Today - 1), BusyRowOn(1, Today)} }

\* Lines 26-34 and the arguments of run: both connections were opened by the
\* constructors, process_all_symbols has not been called.
InitRun ==
    /\ stockdatas \in RunStores
    /\ stockindicators \in RunTables
    /\ batch_size = RunBatchSize
    /\ pc = "idle"
    /\ target_date = None
    /\ symbols = << >>
    /\ idx = 0
    /\ result = NoRecord
    /\ batch = << >>
    /\ total_written = 0
    /\ ret = None
    /\ invoked = << >>
    /\ flushes = << >>
    /\ last_acc = << "ok", "ok" >>
    /\ fn_values = << >>
    /\ fn_window = 0
    /\ fn_recent = 0
    /\ fn_lows = << >>
    /\ fn_closes = << >>
    /\ fn_target = None
    /\ fn_out = None
    /\ first_run = NoRun
    /\ InsIdle
    /\ run_args \in RunArgs
    /\ run_pc = "fetch"
    /\ run_exc = "none"
    /\ run_log = << >>
    /\ hot_conn = "open"
    /\ db_conn = "open"
    /\ hot_stocks \in {{}, {<< 1, Today - 8 >>, << 1, Today - 1 >>}}

\* data_fetcher.py 82-94 and db_manager.py 46-52: the quote of a symbol is
\* stored as its bar of today, in place of the bar of today when there is
\* one.  The quotes of the model are the bars the descriptions stand for: a
\* quote repeats the stored bar of today, and continues a flat history.
QuoteStored(d) ==
    IF d.n = 0 THEN [n |-> 1, last |-> Today, kind |-> "flat"]
    ELSE IF d.last = Today THEN d
    ELSE [n |-> d.n + (Today - d.last), last |-> Today, kind |-> d.kind]

\* update_all_exchanges (data_fetcher.py 103-121) when the quotes of the
\* symbols in quoted get stored.
update_all_exchanges(store, quoted) ==
    [s \in DOMAIN store |->
        IF s \in quoted THEN QuoteStored(store[s]) ELSE store[s]]

\* Lines 48-54: step 1.  The quotes of some symbols are stored (none when
\* the API or batch_insert_prices fails, db_manager.py 59-61); an exception
\* that update_all_exchanges does not catch goes to the handler of line 117.
RunFetch ==
    /\ run_pc = "fetch"
    /\ IF ~run_args.fetch_data
       THEN /\ run_pc' = "prep"
            /\ UNCHANGED << stockdatas, run_log, run_exc >>
       ELSE \E quoted \in QuoteSets, o \in {"ok", "raise"} :
               /\ stockdatas' = update_all_exchanges(stockdatas, quoted)
               /\ run_log' = Append(run_log, [step |-> "fetch",
                                              raised |-> (o = "raise")])
               /\ IF o = "raise"
                  THEN run_exc' = "fetch" /\ run_pc' = "finally"
                  ELSE run_pc' = "prep" /\ UNCHANGED run_exc
    /\ UNCHANGED << driverVars, fnVars, first_run, insVars, run_args,
                    hot_conn, db_conn, hot_stocks >>

\* A cleanup that does not look at calculate_indicators.
CleanupRequested_WithoutCalculation(args) ==
    args.cleanup_mode /= "" /\ args.cleanup_mode /= "none"

\* Line 57: calculate_indicators and cleanup_mode and cleanup_mode != "none".
CleanupRequested(args) ==
    /\ args.calculate_indicators
    /\ args.cleanup_mode /= ""
    /\ args.cleanup_mode /= "none"

\* truncate_indicators (db_manager.py 174-189): TRUNCATE ends as o1 says; on
\* a mysql Error the DELETE of line 183 ends as o2 says.
truncate_indicators(table, o1, o2) ==
    IF o1 = "ok" \/ (o1 = "error" /\ o2 = "ok")
    THEN [table |-> {}, raised |-> FALSE]
    ELSE [table |-> table,
          raised |-> (o1 = "raise" \/ (o1 = "error" /\ o2 = "raise"))]

\* keep_only_indicator_date (db_manager.py 191-205).
keep_only_indicator_date(table, keep_date, o) ==
    IF o = "ok"
    THEN [table |-> {r \in table : r.date = keep_date}, raised |-> FALSE]
    ELSE [table |-> table, raised |-> (o = "raise")]

\* SELECT MAX(date) FROM stockindicators.
LatestIndicatorDate(table) ==
    IF table = {} THEN None
    ELSE CHOOSE d \in {r.date : r \in table} : \A r \in table : r.date <= d

\* keep_only_latest_indicators (db_manager.py 207-221): the SELECT ends as
\* o1 says, the DELETE as o2 says.
keep_only_latest_indicators(table, o1, o2) ==
    IF o1 /= "ok" THEN [table |-> table, raised |-> (o1 = "raise")]
    ELSE IF LatestIndicatorDate(table) = None
    THEN [table |-> table, raised |-> FALSE]
    ELSE keep_only_indicator_date(table, LatestIndicatorDate(table), o2)

\* Lines 61-78: the cleanup function of the mode; called says whether one
\* was called (keep-date without a date, or with a string that is not one,
\* calls none, and neither does a mode that is not one of the three).
CleanupStep(args, table, o1, o2) ==
    IF args.cleanup_mode = "truncate"
    THEN [called |-> TRUE] @@ truncate_indicators(table, o1, o2)
    ELSE IF args.cleanup_mode = "keep-latest"
    THEN [called |-> TRUE] @@ keep_only_latest_indicators(table, o1, o2)
    ELSE IF /\ args.cleanup_mode = "keep-date"
            /\ args.cleanup_date /= "None"
            /\ ParseDate(args.cleanup_date) /= None
    THEN [called |-> TRUE]
         @@ keep_only_indicator_date(table, ParseDate(args.cleanup_date), o1)
    ELSE [called |-> FALSE, table |-> table, raised |-> FALSE]

\* Lines 56-78: the optional cleanup of the indicator table.
RunPrep ==
    /\ run_pc = "prep"
    /\ IF ~CleanupRequested(run_args)
       THEN /\ run_pc' = "calculate"
            /\ UNCHANGED << stockindicators, run_log, run_exc >>
       ELSE \E o1 \in Outcomes, o2 \in Outcomes :
               \E c \in {CleanupStep(run_args, stockindicators, o1, o2)} :
                  /\ stockindicators' = c.table
                  /\ run_log' =
                        IF c.called
                        THEN Append(run_log, [step |-> "cleanup",
                                              raised |-> c.raised])
                        ELSE run_log
                  /\ IF c.raised
                     THEN run_exc' = "cleanup" /\ run_pc' = "finally"
                     ELSE run_pc' = "calculate" /\ UNCHANGED run_exc
    /\ UNCHANGED << stockdatas, batch_size, pc, target_date, symbols, idx,
                    result, batch, total_written, ret, invoked, flushes,
                    last_acc, fnVars, first_run, insVars, run_args, hot_conn,
                    db_conn, hot_stocks >>

\* Lines 80-85: step 2 begins: process_all_symbols(config.BATCH_SIZE) is
\* called.
RunCalculate ==
    /\ run_pc = "calculate"
    /\ IF ~run_args.calculate_indicators
       THEN run_pc' = "hot" /\ UNCHANGED << pc, run_log >>
       ELSE /\ pc' = "start"
            /\ run_pc' = "calculating"
            /\ run_log' = Append(run_log, [step |-> "calculate",
                                           raised |-> FALSE])
    /\ UNCHANGED << stockdatas, driverVars_but_pc, fnVars, first_run, insVars,
                    run_args, run_exc, hot_conn, db_conn, hot_stocks >>

\* Lines 85-86: process_all_symbols has returned.
RunCalculated ==
    /\ run_pc = "calculating"
    /\ pc \in Terminal
    /\ run_pc' = "hot"
    /\ UNCHANGED << stockdatas, driverVars, fnVars, first_run, insVars,
                    run_args, run_exc, run_log, hot_conn, db_conn,
                    hot_stocks >>

\* find_hot_stocks.py 112-142: the symbols with a bar on the latest date, an
\* indicator row of that date with a130 above 2, and a close more than 5 %
\* above the positive close of their previous bar.
HotQuery(store, table, latest) ==
    {s \in DOMAIN store :
        /\ store[s].n >= 2
        /\ store[s].last = latest
        /\ BarClose(store[s].kind, 2) > 0
        /\ BarClose(store[s].kind, 1) > BarClose(store[s].kind, 2)
        /\ (BarClose(store[s].kind, 1) - BarClose(store[s].kind, 2)) * 100
              > 5 * BarClose(store[s].kind, 2)
        /\ \E r \in table : r.symbol = s /\ r.date = latest /\ r.a130 > 200}

\* HotStockFinder.find_hot_stocks (find_hot_stocks.py 99-156): [] when there
\* is no latest date or a query ends in a mysql Error.
find_hot_stocks(store, table, o) ==
    IF o = "ok" /\ MaxDate(store) /= None
    THEN {<< s, MaxDate(store) >> : s \in HotQuery(store, table,
                                                   MaxDate(store))}
    ELSE {}

\* HotStockFinder.delete_old_records(days_to_keep=7)
\* (find_hot_stocks.py 205-223).
delete_old_records(hot, o) ==
    IF o = "ok" THEN {k \in hot : k[2] >= Today - 7} ELSE hot

\* HotStockFinder.insert_hot_stocks (find_hot_stocks.py 158-203).
insert_hot_stocks(hot, found, o) ==
    IF o = "ok" THEN hot \cup found ELSE hot

\* Lines 94-113: the hot-stock step; os says how create_hot_stocks_table,
\* delete_old_records, find_hot_stocks and insert_hot_stocks end.  The step
\* stops after a table that could not be created and at the first call that
\* raises.
HotStep(hot, store, table, os) ==
    IF os[1] /= "ok" THEN [hot |-> hot, raised |-> (os[1] = "raise")]
    ELSE IF os[2] = "raise" THEN [hot |-> hot, raised |-> TRUE]
    ELSE IF os[3] = "raise"
    THEN [hot |-> delete_old_records(hot, os[2]), raised |-> TRUE]
    ELSE [hot |-> insert_hot_stocks(delete_old_records(hot, os[2]),
                                    find_hot_stocks(store, table, os[3]),
                                    os[4]),
          raised |-> (find_hot_stocks(store, table, os[3]) /= {}
                         /\ os[4] = "raise")]

\* Lines 88-115: step 3.
RunHotStocks ==
    /\ run_pc = "hot"
    /\ IF ~run_args.find_hot_stocks
       THEN /\ run_pc' = "finally"
            /\ UNCHANGED << hot_stocks, run_log, run_exc >>
       ELSE \E os \in Outcomes \X Outcomes \X Outcomes \X Outcomes :
               \E h \in {HotStep(hot_stocks, stockdatas, stockindicators,
                                 os)} :
                  /\ hot_stocks' = h.hot
                  /\ run_log' = Append(run_log, [step |-> "hot",
                                                 raised |-> h.raised])
                  /\ run_pc' = "finally"
                  /\ run_exc' = IF h.raised THEN "hot" ELSE run_exc
    /\ UNCHANGED << stockdatas, driverVars, fnVars, first_run, insVars,
                    run_args, hot_conn, db_conn >>

\* How a close() of a connection ends: "ok", or "raise" when conn.close()
\* raises (find_hot_stocks.py 45-49, db_manager.py 33-37: nothing is caught).
CloseOutcomes == {"ok", "raise"}

\* The positions at which run has left: it returned, or an exception went
\* to the caller.
RunTerminal == {"returned", "propagated"}

\* Lines 117-133: the handler re-raises what a step raised; the finally
\* block calls cleanup(): hot_stocks_finder.close(), then db.close().  An
\* exception raised by a close leaves cleanup and run at once, in place of
\* whatever was on its way.
RunFinally ==
    /\ run_pc = "finally"
    /\ \E oh \in CloseOutcomes, od \in CloseOutcomes :
          /\ hot_conn' = IF oh = "ok" THEN "closed" ELSE hot_conn
          /\ db_conn' = IF oh = "ok" /\ od = "ok" THEN "closed" ELSE db_conn
          /\ run_exc' = IF oh = "raise" THEN "hot_close"
                        ELSE IF od = "raise" THEN "db_close"
                        ELSE run_exc
          /\ run_pc' = IF run_exc' = "none" THEN "returned" ELSE "propagated"
    /\ UNCHANGED << stockdatas, driverVars, fnVars, first_run, insVars,
                    run_args, run_log, hot_stocks >>

NextRun ==
    \/ RunFetch
    \/ RunPrep
    \/ RunCalculate
    \/ ResolveDate
    \/ ResolveSymbols
    \/ Calculate
    \/ FlushFull
    \/ NoFlush
    \/ FlushRemainder
    \/ ReturnTotal
    \/ RunCalculated
    \/ RunHotStocks
    \/ RunFinally

SpecRun == InitRun /\ [][NextRun]_vars

---------------------------------------------------------------------------
(* Properties of StockIndicatorSystem.run, checked under SpecRun *)

\* A step of the run raised an exception.
StepRaised == \E i \in 1..Len(run_log) : run_log[i].raised

\* What C25 says of a run that has left: both connections are closed, and
\* an exception raised by a step is the one that reaches the caller.
ClosedAndPropagated ==
    /\ hot_conn = "closed"
    /\ db_conn = "closed"
    /\ \A i \in 1..Len(run_log) :
          run_log[i].raised
             => run_pc = "propagated" /\ run_exc = run_log[i].step

\* C25 as claimed: on every exit path of run, whether the steps complete or
\* one of them raises, the hot-stock finder's connection and the
\* DatabaseManager's connection are both closed, and the exception a step
\* raised is propagated to the caller.
C25_AsClaimed == run_pc \in RunTerminal => ClosedAndPropagated

\* The part of C25 the code keeps: cleanup() is reached on every exit path,
\* the steps all behind it, and when neither close() raises both connections
\* are closed and the exception of a step reaches the caller.
ClosedUnlessCloseRaises ==
    /\ run_pc \in RunTerminal /\ run_exc \notin {"hot_close", "db_close"}
          => ClosedAndPropagated
    /\ (hot_conn = "closed" \/ db_conn = "closed") => run_pc \in RunTerminal

\* The place of a step in the order of run.
StepRank(step) ==
    IF step = "fetch" THEN 1
    ELSE IF step = "cleanup" THEN 2
    ELSE IF step = "calculate" THEN 3
    ELSE 4

\* The steps that ran did so in the order fetch, cleanup, calculation,
\* hot-stock search, each once at most.
StepsInOrder ==
    \A i \in 1..Len(run_log), j \in 1..Len(run_log) :
       i < j => StepRank(run_log[i].step) < StepRank(run_log[j].step)

\* A cleanup function was called only under calculate_indicators and one of
\* the modes truncate, keep-latest and keep-date.
CleanupOnlyWhenRequested ==
    \A i \in 1..Len(run_log) :
       run_log[i].step = "cleanup"
          => /\ run_args.calculate_indicators
             /\ run_args.cleanup_mode \in {"truncate", "keep-latest",
                                           "keep-date"}

\* While process_all_symbols runs or after it, run is past the cleanup.
CleanupBeforeCalculation ==
    pc /= "idle"
       => /\ run_pc \notin {"fetch", "prep", "calculate"}
          /\ \E i \in 1..Len(run_log) : run_log[i].step = "calculate"

\* The keys (symbol, date) of the rows of an indicator table.
RowKeys(table) == {<< r.symbol, r.date >> : r \in table}

\* A step that removes a row of the indicator table is the cleanup, taken
\* while process_all_symbols has not been called.
DeletionOnlyInCleanup ==
    RowKeys(stockindicators) \subseteq RowKeys(stockindicators')
       \/ (run_pc = "prep" /\ pc = "idle")

\* C26: the steps of run are ordered fetch, indicator-table cleanup,
\* indicator calculation, hot-stock search; a cleanup runs only when
\* calculate_indicators is true and cleanup_mode is not "none"; it is over
\* when process_all_symbols starts, and no indicator row is deleted from
\* then on.
C26_CleanupBeforeCalculationOnly ==
    /\ [](StepsInOrder /\ CleanupOnlyWhenRequested /\ CleanupBeforeCalculation)
    /\ [][DeletionOnlyInCleanup]_vars

\* C26 witness: a run with all four steps, none raising: quotes fetched,
\* older rows pruned by keep-latest, records calculated and written, hot
\* stocks searched.
C26_WitnessAllFourSteps ==
    /\ run_pc = "returned"
    /\ run_args.cleanup_mode = "keep-latest"
    /\ Len(run_log) = 4
    /\ run_log[1].step = "fetch"
    /\ run_log[2].step = "cleanup"
    /\ run_log[3].step = "calculate"
    /\ run_log[4].step = "hot"
    /\ ~StepRaised
    /\ pc = "done"
    /\ ret > 0
    /\ \A r \in stockindicators : r.date = Today
    /\ \E r \in stockindicators : r.sma5 /= None

=============================================================================
